---- MODULE Spec2Model ----
(***************************************************************************)
(* A model of the DashScript virtual machine (src/src/vm/vm.rs): the value *)
(* stack, the depth-scoped value register, the frame stack, the bytecode   *)
(* reader cursor, and the execution of instructions, function calls, while *)
(* loops, condition chains and assignments.                                *)
(*                                                                         *)
(* One step of the model is one iteration of VM::execute_body: a whole     *)
(* top-level instruction, with every nested call, loop and condition it    *)
(* runs.  The variable `trace` is a history variable: it records, in       *)
(* order, what the interpreter did inside the steps, so that properties of *)
(* nested executions are state predicates.                                 *)
(*                                                                         *)
(* Abstractions.  A chunk of bytecode is the sequence of the instructions  *)
(* it decodes to; the reader cursor `ci` counts decoded instructions.      *)
(* Constant ids are written as the strings they designate.  Numbers are    *)
(* integers.  Source positions are left out.                               *)
(***************************************************************************)
EXTENDS Integers, Sequences, FiniteSets, TLC

VARIABLES
    frames,          \* VM.frames: sequence of [name, vi]
    value_stack,     \* VM.value_stack: sequence of values (slot i of the code is index i + 1)
    value_register,  \* VM.value_register: sequence of [key, id, depth, mutable]
    reader,          \* VM.reader: [bytes, ci, len]
    permissions,     \* VM.permissions
    instruction,     \* the local `instruction` of execute_body: <<>> (None) or <<ins>> (Some)
    status,          \* "running", "done" (Ok), "error" (Err), "exit" (process::exit)
    error,           \* the RuntimeError returned by execute_body, <<>> or <<err>>
    trace,           \* history of the events of the execution
    command,         \* the launcher's Command: [args, flags]
    process,         \* the process: [args, script, stdout, exit], exit <<>> while it runs
    heap,            \* the collector's heap: objects, handle table and roots
    compiler,        \* BytecodeCompiler: [ast, bytes, constants, pos_map], the i of parse_to_bytes, and refs
    keys,            \* a HashMap keyed by ValueIndex::Num: its entries and the log of its lookups
    resources        \* the resource table: the resources by handle, and the log of the calls of close

vars ==
    <<frames, value_stack, value_register, reader, permissions, instruction, status, error, trace,
      command, process, heap, compiler, keys, resources>>

\* the variables of the launcher, the collector, the compiler and the host
others == <<command, process, heap, compiler, keys, resources>>

\* the permission names the VM tests for, as the strings of the command line
\* (sequences of characters)
PermEnv == <<"e", "n", "v">>

PermMemory == <<"m", "e", "m", "o", "r", "y">>

PermDeepStackTrace ==
    <<"d", "e", "e", "p", "-", "s", "t", "a", "c", "k", "-", "t", "r", "a", "c", "e">>

(***************************************************************************)
(* Bounds of the model.                                                    *)
(***************************************************************************)
MaxProg == 3

(***************************************************************************)
(* Values (the variants of Value that vm.rs uses).                         *)
(***************************************************************************)
VNull == [t |-> "null"]

VBoolean(b) == [t |-> "boolean", b |-> b]

VNum(n) == [t |-> "number", n |-> n]

VStr(s) == [t |-> "string", s |-> s]

\* Dict::Map(entries, pointer): pointer is <<>> (None) or <<p>> (Some(p))
VDictMap(entries, pointer) == [t |-> "object", dict |-> "Map", entries |-> entries, pointer |-> pointer]

\* Dict::Ref(pointer)
VDictRef(pointer) == [t |-> "object", dict |-> "Ref", pointer |-> pointer]

VFunc(id, params, chunk) == [t |-> "function", fn |-> "Func", id |-> id, params |-> params, chunk |-> chunk]

VNativeFn(name) == [t |-> "function", fn |-> "NativeFn", name |-> name]

\* Array(ids): the value-stack slots of the elements
VArray(ids) == [t |-> "array", ids |-> ids]

type_as_str(v) == v.t

(***************************************************************************)
(* ValueIndex, the hashable projection of a value used as a dict key.      *)
(***************************************************************************)
IndexStr(s) == [k |-> "Str", s |-> s, n |-> 0, b |-> FALSE]

IndexNum(n) == [k |-> "Num", s |-> "", n |-> n, b |-> FALSE]

IndexBoolean(b) == [k |-> "Boolean", s |-> "", n |-> 0, b |-> b]

IndexNull == [k |-> "Null", s |-> "", n |-> 0, b |-> FALSE]

to_value_index(v) ==
    CASE v.t = "boolean" -> IndexBoolean(v.b)
      [] v.t = "number" -> IndexNum(v.n)
      [] v.t = "string" -> IndexStr(v.s)
      [] OTHER -> IndexNull

\* A dict's entries: a function from ValueIndex to [val, mutable].
NoEntries == [k \in {} |-> [val |-> VNull, mutable |-> TRUE]]

insert(entries, key, val, mutable) ==
    [k \in DOMAIN entries \cup {key} |->
        IF k = key THEN [val |-> val, mutable |-> mutable] ELSE entries[k]]

(***************************************************************************)
(* vmcore helpers.                                                         *)
(***************************************************************************)
\* builtin::bool, the truthiness of a value
bool(v) ==
    CASE v.t = "boolean" -> v.b
      [] v.t = "null" -> FALSE
      [] v.t = "number" -> v.n # 0
      [] v.t = "string" -> v.s # ""
      [] OTHER -> TRUE

add_values(a, b) ==
    IF a.t = "number" /\ b.t = "number" THEN VNum(a.n + b.n) ELSE VNull

sub_values(a, b) ==
    IF a.t = "number" /\ b.t = "number" THEN VNum(a.n - b.n) ELSE VNull

\* `num as usize` for a number of the model (an integer): the cast saturates,
\* a negative number gives 0
as_usize(n) == IF n < 0 THEN 0 ELSE n

\* Value equality (PartialEq for Value): values of different variants differ
value_eq(a, b) ==
    /\ a.t = b.t
    /\ CASE a.t = "number" -> a.n = b.n
         [] a.t = "boolean" -> a.b = b.b
         [] a.t = "string" -> a.s = b.s
         [] a.t = "null" -> TRUE
         [] OTHER -> a = b

(***************************************************************************)
(* Results of the interpreter's operations: Ok(value), Err(error), or the  *)
(* process exiting.  Each carries the VM as the operation left it.         *)
(***************************************************************************)
Ok(vm, val) == [k |-> "ok", vm |-> vm, val |-> val]

Exit(vm) == [k |-> "exit", vm |-> vm, val |-> VNull]

Log(vm, event) == [vm EXCEPT !.trace = Append(@, event)]

\* the innermost while loop being executed (0: none), for the history
CurrentLoop(vm) == IF vm.loops = <<>> THEN 0 ELSE vm.loops[Len(vm.loops)]

(***************************************************************************)
(* Frames, errors, the register.                                           *)
(***************************************************************************)
\* name.starts_with("@"): the frame names of the VM that begin with "@"
starts_with_at(name) == name \in {"@runtime", "@while", "@condition"}

\* get_stack_trace without the test of the permission
get_stack_trace_all(vm) == [i \in 1..Len(vm.frames) |-> vm.frames[i].name]

get_stack_trace(vm) ==
    IF PermDeepStackTrace \in vm.permissions
    THEN [i \in 1..Len(vm.frames) |-> vm.frames[i].name]
    ELSE LET keep == SelectSeq(vm.frames, LAMBDA f : ~starts_with_at(f.name))
         IN  [i \in 1..Len(keep) |-> keep[i].name]

create_error(vm, message) == [message |-> message, call_frames |-> get_stack_trace(vm)]

Err(vm, message) == [k |-> "err", vm |-> vm, val |-> create_error(vm, message)]

create_frame(vm, name) ==
    [vm EXCEPT !.frames = Append(@, [name |-> name, vi |-> Len(vm.value_register)])]

remove_frame(vm) ==
    [vm EXCEPT !.value_register = SubSeq(@, 1, vm.frames[Len(vm.frames)].vi),
               !.frames = SubSeq(@, 1, Len(@) - 1)]

\* self.frames.pop(): the frame goes, the register stays as it is
pop_frame(vm) == [vm EXCEPT !.frames = SubSeq(@, 1, Len(@) - 1)]

\* Value::borrow: a dict literal is promoted to a slot of its own on the value
\* stack and the value in flight becomes a reference to that slot
borrow(vm, val) ==
    IF val.t = "object" /\ val.dict = "Map"
    THEN IF val.pointer = <<>>
         THEN LET p == Len(vm.value_stack)
              IN  [vm |-> [vm EXCEPT !.value_stack = Append(@, VDictMap(val.entries, <<p>>))],
                   val |-> VDictRef(p)]
         ELSE [vm |-> vm, val |-> VDictRef(val.pointer[1])]
    ELSE [vm |-> vm, val |-> val]

\* Value::to_pointer_value: a dict map records the slot it is stored in
to_pointer_value(val, id) ==
    IF val.t = "object" /\ val.dict = "Map" THEN VDictMap(val.entries, <<id>>) ELSE val

\* Dict::entries: the entries of a map, or of the map a reference points to
entries_of(vm, dict) ==
    IF dict.dict = "Map" THEN dict.entries
    ELSE LET slot == vm.value_stack[dict.pointer + 1]
         IN  IF slot.t = "object" /\ slot.dict = "Map" THEN slot.entries ELSE NoEntries

\* add_value recording the length of the stack as the id of the new entry
add_value_off(vm, name, val, mutable) ==
    LET b == borrow(vm, val)
        stack == Append(b.vm.value_stack, b.val)
    IN  [b.vm EXCEPT !.value_stack = stack,
                     !.value_register = Append(@, [key |-> name, id |-> Len(stack),
                                                   depth |-> Len(vm.frames), mutable |-> mutable])]

add_value(vm, name, val, mutable) ==
    LET b == borrow(vm, val)
        stack == Append(b.vm.value_stack, b.val)
    IN  [b.vm EXCEPT !.value_stack = stack,
                     !.value_register = Append(@, [key |-> name, id |-> Len(stack) - 1,
                                                   depth |-> Len(vm.frames), mutable |-> mutable])]

\* The three lookups scan the register from the newest entry to the oldest.
RECURSIVE get_value_scan(_, _, _)
get_value_scan(vm, key, i) ==
    LET value == vm.value_register[i]
    IN  IF value.key = key /\ value.depth <= Len(vm.frames) THEN vm.value_stack[value.id + 1]
        ELSE IF i = 1 THEN VNull
        ELSE get_value_scan(vm, key, i - 1)

get_value(vm, key) == get_value_scan(vm, key, Len(vm.value_register))

RECURSIVE value_exists_scan(_, _, _)
value_exists_scan(vm, key, i) ==
    LET value == vm.value_register[i]
    IN  IF value.key = key /\ value.depth <= Len(vm.frames) THEN TRUE
        ELSE IF i = 1 THEN FALSE
        ELSE value_exists_scan(vm, key, i - 1)

value_exists(vm, key) == value_exists_scan(vm, key, Len(vm.value_register))

RECURSIVE get_value_register_scan(_, _, _)
get_value_register_scan(vm, key, i) ==
    LET value == vm.value_register[i]
    IN  IF value.key = key /\ value.depth <= Len(vm.frames) THEN Ok(vm, value)
        ELSE IF i = 1 THEN Err(vm, "ExpectedValueStack")
        ELSE get_value_register_scan(vm, key, i - 1)

\* get_value_register scanning from the oldest entry instead of the newest
get_value_register_oldest(vm, key) ==
    LET found == {j \in 1..Len(vm.value_register) :
                    vm.value_register[j].key = key /\ vm.value_register[j].depth <= Len(vm.frames)}
    IN  IF found = {} THEN Err(vm, "ExpectedValueStack")
        ELSE Ok(vm, vm.value_register[CHOOSE j \in found : \A k \in found : j <= k])

get_value_register(vm, key) == get_value_register_scan(vm, key, Len(vm.value_register))

(***************************************************************************)
(* The reader: its state is (bytes, ci, len).                              *)
(***************************************************************************)
get_state(vm) == vm.reader

update_state(vm, state) == [vm EXCEPT !.reader = state]

\* rebinding the reader to a sub-chunk
rebind(vm, chunk) == [vm EXCEPT !.reader = [bytes |-> chunk, ci |-> 0, len |-> Len(chunk)]]

\* reader.parse_byte: decodes the instruction at ci and moves ci past it
parse_byte(vm) ==
    [vm |-> [vm EXCEPT !.reader.ci = @ + 1], ins |-> vm.reader.bytes[vm.reader.ci + 1]]

(***************************************************************************)
(* Instructions and expressions, as reader.parse_byte decodes them         *)
(* (Instruction and InstructionValue).                                     *)
(***************************************************************************)
InsVar(name, value) == [op |-> "Var", name |-> name, value |-> value]

InsConst(name, value) == [op |-> "Const", name |-> name, value |-> value]

InsAssign(target, aop, value) == [op |-> "Assign", target |-> target, aop |-> aop, value |-> value]

InsValue(value) == [op |-> "Value", value |-> value]

\* main_chain: sequence of [guard, chunk]; else_chunk: <<>> (None) or <<chunk>>
InsCondition(main_chain, else_chunk) == [op |-> "Condition", main_chain |-> main_chain, else_chunk |-> else_chunk]

InsWhile(condition, chunk) == [op |-> "While", condition |-> condition, chunk |-> chunk]

InsReturn(value) == [op |-> "Return", value |-> value]

InsBreak == [op |-> "Break"]

InsContinue == [op |-> "Continue"]

IvTrue == [e |-> "True"]

IvFalse == [e |-> "False"]

IvNull == [e |-> "Null"]

IvNum(n) == [e |-> "Num", n |-> n]

IvStr(id) == [e |-> "Str", id |-> id]

IvWord(id) == [e |-> "Word", id |-> id]

IvGroup(content) == [e |-> "Group", content |-> content]

\* entries: sequence of [key, value]
IvDict(dict_entries) == [e |-> "Dict", entries |-> dict_entries]

IvAttr(body, attr) == [e |-> "Attr", body |-> body, attr |-> attr]

\* params: sequence of [value, spread]
IvCall(val, params) == [e |-> "Call", val |-> val, params |-> params]

\* params: sequence of [id, is_rest]
IvFunc(id, params, chunk) == [e |-> "Func", id |-> id, params |-> params, chunk |-> chunk]

IvArray(vec) == [e |-> "Array", vec |-> vec]

IvAdd(a, b) == [e |-> "Add", a |-> a, b |-> b]

IvSub(a, b) == [e |-> "Sub", a |-> a, b |-> b]

IvInvert(ident) == [e |-> "Invert", ident |-> ident]

IvLessThan(a, b) == [e |-> "LessThan", a |-> a, b |-> b]

IvEqual(a, b) == [e |-> "Equal", a |-> a, b |-> b]

\* ControlFlow
CfNone == [cf |-> "None"]

CfBreak == [cf |-> "Break"]

CfReturn(val) == [cf |-> "Return", val |-> val]

(***************************************************************************)
(* Native functions.  A native call pushes a frame named NativeFunction,   *)
(* runs the host function and pops the frame without cutting the register. *)
(* The host functions of the model leave the VM alone and return Null.     *)
(***************************************************************************)
native_call(vm, name, args) == [vm |-> vm, val |-> VNull]

(***************************************************************************)
(* The interpreter.                                                        *)
(***************************************************************************)
\* A call of one of the interpreter's operations.  The operations call one
\* another (a value holds a call, a call runs instructions, an instruction
\* evaluates values): every such call goes through Run, which dispatches on
\* the operation's name.
RECURSIVE Run(_)

ExecuteValue(a1, a2) == Run(<<"execute_value", a1, a2>>)

ExecuteDict(a1, a2, a3, a4) == Run(<<"execute_dict", a1, a2, a3, a4>>)

ExecuteArray(a1, a2, a3, a4) == Run(<<"execute_array", a1, a2, a3, a4>>)

ExecuteParams(a1, a2, a3, a4) == Run(<<"execute_params", a1, a2, a3, a4>>)

ExecuteInstruction(a1, a2) == Run(<<"execute_instruction", a1, a2>>)

ExecuteAssignment(a1, a2, a3, a4, a5) == Run(<<"execute_assignment", a1, a2, a3, a4, a5>>)

AssignAttr(a1, a2, a3, a4, a5, a6) == Run(<<"assign_attr", a1, a2, a3, a4, a5, a6>>)

ExecuteFunc(a1, a2, a3, a4, a5) == Run(<<"execute_func", a1, a2, a3, a4, a5>>)

FuncBody(a1, a2, a3) == Run(<<"func_body", a1, a2, a3>>)

ExecuteWhileLoop(a1, a2, a3) == Run(<<"execute_while_loop", a1, a2, a3>>)

WhileLoop(a1, a2, a3, a4) == Run(<<"while_loop", a1, a2, a3, a4>>)

WhileBody(a1, a2, a3) == Run(<<"while_body", a1, a2, a3>>)

ExecuteConditionChain(a1, a2, a3) == Run(<<"execute_condition_chain", a1, a2, a3>>)

ConditionChain(a1, a2, a3, a4, a5) == Run(<<"condition_chain", a1, a2, a3, a4, a5>>)

ConditionArm(a1, a2) == Run(<<"condition_arm", a1, a2>>)


\* The history event of an instruction about to be executed.
ExecEvent(vm, ins) == [ev |-> "exec", op |-> ins.op, calls |-> vm.calls, loop |-> CurrentLoop(vm)]

\* InstructionValue::Dict: the entries are evaluated in order, each value borrowed
execute_dict(vm, dict_entries, i, entries) ==
    IF i > Len(dict_entries) THEN Ok(vm, VDictMap(entries, <<>>))
    ELSE LET r == ExecuteValue(vm, dict_entries[i].value)
         IN  IF r.k # "ok" THEN r
             ELSE LET b == borrow(r.vm, r.val)
                  IN  ExecuteDict(b.vm, dict_entries, i + 1,
                                   insert(entries, IndexStr(dict_entries[i].key), b.val, TRUE))

\* InstructionValue::Array: every item is evaluated and pushed on the value
\* stack, and the array holds the indices of the slots
execute_array(vm, vec, i, items) ==
    IF i > Len(vec) THEN Ok(vm, VArray(items))
    ELSE LET r == ExecuteValue(vm, vec[i])
         IN  IF r.k # "ok" THEN r
             ELSE ExecuteArray([r.vm EXCEPT !.value_stack = Append(@, r.val)], vec, i + 1,
                               Append(items, Len(r.vm.value_stack)))

\* Value::to_vec: the elements of an array, Null for a slot out of the stack
to_vec(vm, val) ==
    IF val.t = "array"
    THEN [k \in 1..Len(val.ids) |->
            IF val.ids[k] < Len(vm.value_stack) THEN vm.value_stack[val.ids[k] + 1] ELSE VNull]
    ELSE <<>>

\* the arguments of a call, evaluated in order
execute_params(vm, params, i, call_params) ==
    IF i > Len(params) THEN Ok(vm, call_params)
    ELSE LET r == ExecuteValue(vm, params[i].value)
         IN  IF r.k # "ok" THEN r
             ELSE ExecuteParams(r.vm, params, i + 1,
                                IF params[i].spread THEN call_params \o to_vec(r.vm, r.val)
                                ELSE Append(call_params, r.val))

execute_value(vm, value) ==
    CASE value.e = "True" -> Ok(vm, VBoolean(TRUE))
      [] value.e = "False" -> Ok(vm, VBoolean(FALSE))
      [] value.e = "Null" -> Ok(vm, VNull)
      [] value.e = "Group" -> ExecuteValue(vm, value.content)
      [] value.e = "Str" -> Ok(vm, VStr(value.id))
      [] value.e = "Word" -> Ok(vm, get_value(vm, value.id))
      [] value.e = "Num" -> Ok(vm, VNum(value.n))
      [] value.e = "Dict" -> ExecuteDict(vm, value.entries, 1, NoEntries)
      [] value.e = "Attr" ->
            LET a == ExecuteValue(vm, value.attr)
            IN  IF a.k # "ok" THEN a
                ELSE LET attr == to_value_index(a.val)
                         b == ExecuteValue(a.vm, value.body)
                     IN  IF b.k # "ok" THEN b
                         ELSE IF b.val.t = "object"
                         THEN LET entries == entries_of(b.vm, b.val)
                              IN  Ok(b.vm, IF attr \in DOMAIN entries THEN entries[attr].val ELSE VNull)
                         ELSE IF b.val.t = "array"
                         THEN LET arr == b.val.ids
                                  val == IF attr.k = "Num" /\ as_usize(attr.n) < Len(arr)
                                         THEN b.vm.value_stack[arr[as_usize(attr.n) + 1] + 1]
                                         ELSE VNull
                              IN  Ok(Log(b.vm, [ev |-> "index", arr |-> arr, attr |-> attr, val |-> val,
                                                stack |-> b.vm.value_stack]),
                                     val)
                         \* the attributes of a string (length, its methods, its
                         \* characters) are not modelled: no program here reads one
                         ELSE Err(b.vm, "UnexpectedAttributeAccess")
      [] value.e = "Call" ->
            LET c == ExecuteValue(vm, value.val)
            IN  IF c.k # "ok" THEN c
                ELSE LET p == ExecuteParams(c.vm, value.params, 1, <<>>)
                     IN  IF p.k # "ok" THEN p
                         ELSE IF c.val.t = "function" /\ c.val.fn = "NativeFn"
                         THEN LET n == native_call(create_frame(p.vm, "NativeFunction"), c.val.name, p.val)
                              IN  Ok(pop_frame(n.vm), n.val)
                         ELSE IF c.val.t = "function" /\ c.val.fn = "Func"
                         THEN ExecuteFunc(p.vm, c.val.id, c.val.params, p.val, c.val.chunk)
                         ELSE Err(p.vm, "UnexpectedTypeError")
      [] value.e = "Array" -> ExecuteArray(vm, value.vec, 1, <<>>)
      [] value.e = "Func" ->
            LET val == VFunc(value.id, value.params, value.chunk)
            IN  Ok(IF value.id # "anonymous" THEN add_value(vm, value.id, val, FALSE) ELSE vm, val)
      [] value.e = "Invert" ->
            LET r == ExecuteValue(vm, value.ident)
            IN  IF r.k # "ok" THEN r ELSE Ok(r.vm, VBoolean(~bool(r.val)))
      [] value.e \in {"Add", "Sub", "LessThan", "Equal"} ->
            LET a == ExecuteValue(vm, value.a)
            IN  IF a.k # "ok" THEN a
                ELSE LET b == ExecuteValue(a.vm, value.b)
                     IN  IF b.k # "ok" THEN b
                         ELSE Ok(b.vm,
                                 CASE value.e = "Add" -> add_values(a.val, b.val)
                                   [] value.e = "Sub" -> sub_values(a.val, b.val)
                                   [] value.e = "LessThan" ->
                                        VBoolean(a.val.t = "number" /\ b.val.t = "number" /\ a.val.n < b.val.n)
                                   [] value.e = "Equal" -> VBoolean(value_eq(a.val, b.val)))
      [] OTHER -> Err(vm, "UnknownRuntimeError")

(***************************************************************************)
(* execute_func.                                                           *)
(***************************************************************************)
\* pushing the remaining arguments of a rest parameter on the value stack
RECURSIVE push_rest(_, _, _, _)
push_rest(vm, params, i, ids) ==
    IF i > Len(params) THEN [vm |-> vm, val |-> VArray(ids)]
    ELSE push_rest([vm EXCEPT !.value_stack = Append(@, params[i])], params, i + 1,
                   Append(ids, Len(vm.value_stack)))

\* the parameter loop with a rest parameter taking every argument of the call
RECURSIVE func_params_all(_, _, _, _)
func_params_all(vm, param_ids, params, i) ==
    IF i > Len(param_ids) THEN vm
    ELSE LET b == IF ~param_ids[i].is_rest
                  THEN [vm |-> vm, val |-> IF i <= Len(params) THEN params[i] ELSE VNull]
                  ELSE push_rest(vm, params, 1, <<>>)
         IN  func_params_all(add_value(b.vm, param_ids[i].id, b.val, TRUE), param_ids, params, i + 1)

\* the parameter loop: i is the position (from 1) of the parameter to bind
RECURSIVE func_params(_, _, _, _)
func_params(vm, param_ids, params, i) ==
    IF i > Len(param_ids) THEN vm
    ELSE LET b == IF ~param_ids[i].is_rest
                  THEN [vm |-> vm, val |-> IF i <= Len(params) THEN params[i] ELSE VNull]
                  ELSE IF i <= Len(params) + 1
                  THEN push_rest(vm, params, i, <<>>)
                  ELSE [vm |-> vm, val |-> VArray(<<>>)]
         IN  func_params(add_value(b.vm, param_ids[i].id, b.val, TRUE), param_ids, params, i + 1)

\* The call returns val: the history records the VM after the call beside the
\* VM before it (entry).
FuncReturn(vm, entry, val) ==
    Ok(Log([vm EXCEPT !.calls = @ - 1],
           [ev |-> "exit", val |-> val, entry |-> entry,
            frames |-> Len(vm.frames), register |-> Len(vm.value_register), reader |-> vm.reader]),
       val)

\* the instruction loop of execute_func; state is the saved reader state
func_body(vm, state, entry) ==
    IF vm.reader.ci < vm.reader.len
    THEN LET p == parse_byte(vm)
             ins == p.ins
             v0 == Log(p.vm, ExecEvent(p.vm, ins))
         IN  CASE ins.op = "Return" ->
                    LET r == ExecuteValue(v0, ins.value)
                        v1 == remove_frame(update_state(r.vm, state))
                    IN  IF r.k = "ok"
                        THEN FuncReturn(Log(v1, [ev |-> "return", site |-> "func", val |-> r.val,
                                                 calls |-> v1.calls, frames |-> Len(v0.frames), block |-> Len(v0.frames)]),
                                        entry, r.val)
                        ELSE [r EXCEPT !.vm = v1]
               [] ins.op = "While" ->
                    LET r == ExecuteWhileLoop(v0, ins.condition, ins.chunk)
                    IN  IF r.k # "ok" THEN r
                        ELSE IF r.val # <<>>
                        THEN FuncReturn(remove_frame(update_state(r.vm, state)), entry, r.val[1])
                        ELSE FuncBody(r.vm, state, entry)
               [] ins.op = "Condition" ->
                    LET r == ExecuteConditionChain(v0, ins.main_chain, ins.else_chunk)
                    IN  IF r.k # "ok" THEN r
                        ELSE IF r.val.cf = "Return"
                        THEN FuncReturn(remove_frame(update_state(r.vm, state)), entry, r.val.val)
                        ELSE FuncBody(r.vm, state, entry)
               [] OTHER ->
                    LET r == ExecuteInstruction(v0, ins)
                    IN  IF r.k # "ok" THEN r ELSE FuncBody(r.vm, state, entry)
    ELSE FuncReturn(remove_frame(update_state(vm, state)), entry, VNull)

execute_func(vm, id, param_ids, params, chunk) ==
    LET entry == [frames |-> Len(vm.frames), register |-> Len(vm.value_register), reader |-> vm.reader,
                  params |-> params]
        v1 == create_frame(vm, id)
        state == get_state(v1)
        v2 == func_params(rebind(v1, chunk), param_ids, params, 1)
        v3 == Log([v2 EXCEPT !.calls = @ + 1],
                  [ev |-> "call", id |-> id, calls |-> v2.calls + 1,
                   param_ids |-> param_ids, params |-> params, frames |-> Len(v1.frames),
                   vi |-> v1.frames[Len(v1.frames)].vi, stack_before |-> Len(v1.value_stack),
                   register |-> v2.value_register, stack |-> v2.value_stack])
    IN  FuncBody(v3, state, entry)

(***************************************************************************)
(* execute_while_loop.  The result value is <<>> (None) or <<val>> (Some). *)
(***************************************************************************)
\* the loop is left: the history records the reader and the frame height
\* beside those at its entry
WhileReturn(vm, entry, why, val) ==
    Ok(Log([vm EXCEPT !.loops = SubSeq(@, 1, Len(@) - 1)],
           [ev |-> "leave", kind |-> "while", why |-> why, loop |-> entry.loop, entry |-> entry,
            frames |-> Len(vm.frames), register |-> Len(vm.value_register), reader |-> vm.reader]),
       val)

\* the body is decoded into a list of instructions before the loop runs
RECURSIVE while_decode(_, _)
while_decode(vm, instructions) ==
    IF vm.reader.ci < vm.reader.len
    THEN LET p == parse_byte(vm) IN while_decode(p.vm, Append(instructions, p.ins))
    ELSE [vm |-> vm, instructions |-> instructions]

\* `for instruction in &instructions`: i is the position of the next one.
\* The result kinds "break" and "return" are the two early returns of
\* execute_while_loop.
while_body(vm, instructions, i) ==
    IF i > Len(instructions) THEN Ok(vm, <<>>)
    ELSE LET ins == instructions[i]
             v0 == Log(Log(vm, [ev |-> "iter", loop |-> CurrentLoop(vm), at |-> i,
                                register |-> Len(vm.value_register)]), ExecEvent(vm, ins))
         IN  CASE ins.op = "Break" ->
                    [k |-> "break", vm |-> Log(v0, [ev |-> "break", site |-> "while", loop |-> CurrentLoop(v0)]),
                     val |-> <<>>]
               [] ins.op = "Continue" ->
                    WhileBody(Log(v0, [ev |-> "continue", site |-> "while", loop |-> CurrentLoop(v0)]),
                               instructions, i + 1)
               [] ins.op = "Return" ->
                    LET r == ExecuteValue(v0, ins.value)
                    IN  IF r.k # "ok" THEN r
                        ELSE [k |-> "return",
                              vm |-> Log(r.vm, [ev |-> "return", site |-> "while", val |-> r.val,
                                                calls |-> r.vm.calls, frames |-> Len(v0.frames), block |-> Len(v0.frames)]),
                              val |-> <<r.val>>]
               [] ins.op = "While" ->
                    LET r == ExecuteWhileLoop(v0, ins.condition, ins.chunk)
                    IN  IF r.k # "ok" THEN r
                        ELSE IF r.val # <<>> THEN [k |-> "return", vm |-> r.vm, val |-> r.val]
                        ELSE WhileBody([r.vm EXCEPT !.reader.ci = @ + 1], instructions, i + 1)
               [] OTHER ->
                    LET r == ExecuteInstruction(v0, ins)
                    IN  IF r.k # "ok" THEN r ELSE WhileBody(r.vm, instructions, i + 1)

\* the loop as an `if`: the body runs once and the guard is not evaluated again
while_loop_once(vm, condition, instructions, entry) ==
    LET g == ExecuteValue(vm, condition)
    IN  IF g.k # "ok" THEN g
        ELSE LET v1 == Log(g.vm, [ev |-> "guard", loop |-> entry.loop, truthy |-> bool(g.val)])
                 b == IF bool(g.val) THEN WhileBody(v1, instructions, 1) ELSE Ok(v1, <<>>)
             IN  CASE b.k = "ok" -> WhileReturn(update_state(pop_frame(b.vm), entry.state), entry, "end", <<>>)
                   [] b.k = "break" -> WhileReturn(b.vm, entry, "break", <<>>)
                   [] b.k = "return" -> WhileReturn(b.vm, entry, "return", b.val)
                   [] OTHER -> b

\* `while builtin::bool(self.ExecuteValue(condition)?)`
while_loop(vm, condition, instructions, entry) ==
    LET g == ExecuteValue(vm, condition)
    IN  IF g.k # "ok" THEN g
        ELSE LET v1 == Log(g.vm, [ev |-> "guard", loop |-> entry.loop, truthy |-> bool(g.val)])
             IN  IF bool(g.val)
                 THEN LET b == WhileBody(v1, instructions, 1)
                      IN  CASE b.k = "ok" -> WhileLoop(b.vm, condition, instructions, entry)
                            [] b.k = "break" -> WhileReturn(b.vm, entry, "break", <<>>)
                            [] b.k = "return" -> WhileReturn(b.vm, entry, "return", b.val)
                            [] OTHER -> b
                 ELSE WhileReturn(update_state(pop_frame(v1), entry.state), entry, "end", <<>>)

execute_while_loop(vm, condition, chunk) ==
    LET state == get_state(vm)
        v1 == create_frame(rebind(vm, chunk), "@while")
        d == while_decode(v1, <<>>)
        entry == [loop |-> Len(vm.trace) + 1, state |-> state, frames |-> Len(vm.frames),
                  register |-> Len(vm.value_register)]
        v2 == Log([d.vm EXCEPT !.loops = Append(@, entry.loop)],
                  [ev |-> "enter", kind |-> "while", loop |-> entry.loop, body |-> Len(d.instructions)])
    IN  WhileLoop(v2, condition, d.instructions, entry)

(***************************************************************************)
(* execute_condition_chain.  The result value is a ControlFlow.            *)
(***************************************************************************)
ConditionReturn(vm, entry, why, cf) ==
    Ok(Log(vm, [ev |-> "leave", kind |-> "condition", why |-> why, loop |-> 0, entry |-> entry,
                frames |-> Len(vm.frames), register |-> Len(vm.value_register), reader |-> vm.reader]),
       cf)

\* the instruction loop of one arm (a chunk of the main chain, or the else
\* chunk: the two loops of the code are the same but for the order of the
\* last two calls, which commute)
condition_arm(vm, entry) ==
    IF vm.reader.ci < vm.reader.len
    THEN LET p == parse_byte(vm)
             ins == p.ins
             v0 == Log(p.vm, ExecEvent(p.vm, ins))
         IN  CASE ins.op = "Break" ->
                    ConditionReturn(remove_frame(update_state(
                                        Log(v0, [ev |-> "break", site |-> "condition", loop |-> CurrentLoop(v0)]),
                                        entry.state)),
                                    entry, "break", CfBreak)
               [] ins.op = "Return" ->
                    LET v1 == remove_frame(update_state(v0, entry.state))
                        r == ExecuteValue(v1, ins.value)
                    IN  IF r.k # "ok" THEN r
                        ELSE ConditionReturn(Log(r.vm, [ev |-> "return", site |-> "condition", val |-> r.val,
                                                        calls |-> r.vm.calls, frames |-> Len(v1.frames), block |-> Len(v0.frames)]),
                                             entry, "return", CfReturn(r.val))
               [] ins.op = "While" ->
                    LET r == ExecuteWhileLoop(v0, ins.condition, ins.chunk)
                    IN  IF r.k # "ok" THEN r
                        ELSE IF r.val # <<>>
                        THEN ConditionReturn(remove_frame(update_state(r.vm, entry.state)),
                                             entry, "return", CfReturn(r.val[1]))
                        ELSE ConditionArm(r.vm, entry)
               [] ins.op = "Condition" ->
                    LET r == ExecuteConditionChain(v0, ins.main_chain, ins.else_chunk)
                    IN  IF r.k # "ok" THEN r
                        ELSE IF r.val.cf = "None" THEN ConditionArm(r.vm, entry)
                        ELSE ConditionReturn(remove_frame(update_state(r.vm, entry.state)),
                                             entry, IF r.val.cf = "Break" THEN "break" ELSE "return", r.val)
               [] OTHER ->
                    LET r == ExecuteInstruction(v0, ins)
                    IN  IF r.k # "ok" THEN r ELSE ConditionArm(r.vm, entry)
    ELSE ConditionReturn(remove_frame(update_state(vm, entry.state)), entry, "end", CfNone)

\* entering the chunk of an arm
ConditionEnter(vm, chunk) ==
    LET entry == [state |-> get_state(vm), frames |-> Len(vm.frames), register |-> Len(vm.value_register)]
        v1 == create_frame(rebind(vm, chunk), "@condition")
    IN  ConditionArm(Log(v1, [ev |-> "enter", kind |-> "condition", loop |-> 0]), entry)

\* the history events of a condition chain: a guard that was evaluated, and
\* the arm whose chunk is about to run (0: the else chunk)
GuardEvent(chain, i, val) == [ev |-> "cguard", chain |-> chain, arm |-> i, truthy |-> bool(val)]

ArmEvent(chain, i) == [ev |-> "arm", chain |-> chain, arm |-> i]

\* `for (instruction_value, chunk) in main_chain` going on after a chunk was
\* executed, instead of returning
condition_chain_fallthrough(vm, main_chain, else_chunk, i, chain) ==
    IF i <= Len(main_chain)
    THEN LET g == ExecuteValue(vm, main_chain[i].guard)
         IN  IF g.k # "ok" THEN g
             ELSE LET v1 == Log(g.vm, GuardEvent(chain, i, g.val))
                  IN  IF bool(g.val)
                      THEN LET r == ConditionEnter(Log(v1, ArmEvent(chain, i)), main_chain[i].chunk)
                           IN  IF r.k # "ok" \/ r.val # CfNone THEN r
                               ELSE ConditionChain(r.vm, main_chain, else_chunk, i + 1, chain)
                      ELSE ConditionChain(v1, main_chain, else_chunk, i + 1, chain)
    ELSE IF else_chunk # <<>> THEN ConditionEnter(Log(vm, ArmEvent(chain, 0)), else_chunk[1])
    ELSE Ok(vm, CfNone)

\* `for (instruction_value, chunk) in main_chain`, then the else chunk; chain
\* names the chain in the history
condition_chain(vm, main_chain, else_chunk, i, chain) ==
    IF i <= Len(main_chain)
    THEN LET g == ExecuteValue(vm, main_chain[i].guard)
         IN  IF g.k # "ok" THEN g
             ELSE LET v1 == Log(g.vm, GuardEvent(chain, i, g.val))
                  IN  IF bool(g.val)
                      THEN ConditionEnter(Log(v1, ArmEvent(chain, i)), main_chain[i].chunk)
                      ELSE ConditionChain(v1, main_chain, else_chunk, i + 1, chain)
    ELSE IF else_chunk # <<>> THEN ConditionEnter(Log(vm, ArmEvent(chain, 0)), else_chunk[1])
    ELSE Ok(vm, CfNone)

execute_condition_chain(vm, main_chain, else_chunk) ==
    LET chain == Len(vm.trace) + 1
    IN  ConditionChain(Log(vm, [ev |-> "chain", chain |-> chain, arms |-> Len(main_chain),
                                has_else |-> else_chunk # <<>>]),
                       main_chain, else_chunk, 1, chain)

(***************************************************************************)
(* execute_assignment.  The result value is the u32 the code returns.      *)
(***************************************************************************)
\* the value of a plain assignment for every op
assigned_plain(op, plain, old, val) == plain

\* the value an assignment stores: `match op { 0 => .., 1 => .., 2 => .., _ => Null }`
assigned(op, plain, old, val) ==
    CASE op = 0 -> plain
      [] op = 1 -> add_values(old, val)
      [] op = 2 -> sub_values(old, val)
      [] OTHER -> VNull

\* assign_word without the test of the entry's mutable flag
assign_word_unchecked(vm, i, val, op, last_stack) ==
    LET o == get_value_register(vm, i)
    IN  IF o.k # "ok" THEN o
        ELSE IF ~last_stack THEN Ok(vm, o.val.id)
        ELSE LET b == borrow(vm, val)
                 new == to_pointer_value(
                            assigned(op, b.val, b.vm.value_stack[o.val.id + 1], b.val), o.val.id)
                 v1 == [b.vm EXCEPT !.value_stack[o.val.id + 1] = new]
             IN  Ok(Log(v1, [ev |-> "assign", key |-> i, id |-> o.val.id, op |-> op,
                             mutable |-> o.val.mutable, res |-> "ok", val |-> val,
                             register |-> <<vm.value_register, v1.value_register>>,
                             frames |-> <<vm.frames, v1.frames>>,
                             before |-> vm.value_stack, after |-> v1.value_stack]),
                    0)

\* InstructionValue::Word(i) as the target
assign_word(vm, i, val, op, last_stack) ==
    LET o == get_value_register(vm, i)
    IN  IF o.k # "ok" THEN o
        ELSE LET old_val == o.val
             IN  IF last_stack
                 THEN IF ~old_val.mutable
                      THEN Err(Log(vm, [ev |-> "assign", key |-> i, id |-> old_val.id, op |-> op,
                                        mutable |-> FALSE, res |-> "AssignmentToConstant", val |-> val,
                                        register |-> <<vm.value_register, vm.value_register>>,
                                        frames |-> <<vm.frames, vm.frames>>,
                                        before |-> vm.value_stack, after |-> vm.value_stack]),
                               "AssignmentToConstant")
                      ELSE LET b == borrow(vm, val)
                               new == to_pointer_value(
                                          assigned(op, b.val, b.vm.value_stack[old_val.id + 1], b.val),
                                          old_val.id)
                               v1 == [b.vm EXCEPT !.value_stack[old_val.id + 1] = new]
                           IN  Ok(Log(v1, [ev |-> "assign", key |-> i, id |-> old_val.id, op |-> op,
                                           mutable |-> TRUE, res |-> "ok", val |-> val,
                                           register |-> <<vm.value_register, v1.value_register>>,
                                           frames |-> <<vm.frames, v1.frames>>,
                                           before |-> vm.value_stack, after |-> v1.value_stack]),
                                  0)
                 ELSE Ok(vm, old_val.id)

\* the slot a dict value is stored in: Dict::Ref(pointer) | Dict::Map(_, Some(pointer))
dict_pointer(dict) ==
    IF dict.dict = "Ref" THEN <<dict.pointer>> ELSE dict.pointer

\* The history event of an attribute assignment that is carried out
\* (last_stack): designated is the value the target's base expression
\* evaluates to, pointer the slot that is written.
AttrEvent(vm, after, raw_target, attr_index, op, val, entries, pointer, res) ==
    [ev |-> "assign_attr", attr |-> attr_index, op |-> op, val |-> val, res |-> res,
     designated |-> ExecuteValue(vm, raw_target).val, pointer |-> pointer,
     entries |-> entries, before |-> vm.value_stack, after |-> after.value_stack]

\* InstructionValue::Attr(raw_target, raw_attr) as the target
assign_attr(vm, raw_target, raw_attr, val, op, last_stack) ==
    LET t == ExecuteAssignment(vm, raw_target, val, op, FALSE)
    IN  IF t.k # "ok" THEN t
        ELSE LET target_id == t.val
                 target == t.vm.value_stack[target_id + 1]
                 a == ExecuteValue(t.vm, raw_attr)
             IN  IF a.k # "ok" THEN a
                 ELSE LET attr_index == to_value_index(a.val)
                          v0 == a.vm
                      IN  IF target.t # "object" THEN Err(v0, "UnexpectedAttributeAccess")
                          ELSE LET entries == entries_of(v0, target)
                                   pointer == dict_pointer(target)
                               IN  IF attr_index \in DOMAIN entries
                                   THEN IF ~last_stack THEN Ok(v0, target_id)
                                        ELSE IF ~entries[attr_index].mutable
                                        THEN Err(Log(v0, AttrEvent(v0, v0, raw_target, attr_index, op, val,
                                                                   entries, pointer, "UnexpectedAttributeAccess")),
                                                 "UnexpectedAttributeAccess")
                                        ELSE IF pointer = <<>> THEN Err(v0, "SegmentationFault")
                                        ELSE LET b == borrow(v0, val)
                                                 new_entries == insert(entries, attr_index, b.val, TRUE)
                                                 new == to_pointer_value(
                                                            assigned(op, VDictMap(new_entries, pointer),
                                                                     entries[attr_index].val, val),
                                                            pointer[1])
                                                 v1 == [b.vm EXCEPT !.value_stack[pointer[1] + 1] = new]
                                             IN  Ok(Log(v1, AttrEvent(v0, v1, raw_target, attr_index, op, val,
                                                                      entries, pointer, "ok")),
                                                    target_id)
                                   ELSE IF ~last_stack THEN Err(v0, "UnexpectedAttributeAccess")
                                        ELSE IF op # 0
                                        THEN Err(Log(v0, AttrEvent(v0, v0, raw_target, attr_index, op, val,
                                                                   entries, pointer, "UnexpectedAssignment")),
                                                 "UnexpectedAssignment")
                                        ELSE LET b == borrow(v0, val)
                                                 new_entries == insert(entries, attr_index, b.val, TRUE)
                                             IN  IF pointer = <<>> THEN Err(b.vm, "SegmentationFault")
                                                 ELSE LET v1 == [b.vm EXCEPT !.value_stack[pointer[1] + 1] =
                                                                      VDictMap(new_entries, pointer)]
                                                      IN  Ok(Log(v1, AttrEvent(v0, v1, raw_target, attr_index,
                                                                               op, val, entries, pointer, "ok")),
                                                             0)

execute_assignment(vm, value, val, op, last_stack) ==
    CASE value.e = "Word" -> assign_word(vm, value.id, val, op, last_stack)
      [] value.e = "Attr" -> AssignAttr(vm, value.body, value.attr, val, op, last_stack)
      [] OTHER -> Err(vm, "UnexpectedAssignment")

\* declare without the test of value_exists
declare_unchecked(vm, name, value, mutable) ==
    LET r == ExecuteValue(vm, value)
    IN  IF r.k # "ok" THEN r
        ELSE LET v1 == add_value(r.vm, name, r.val, mutable)
             IN  Ok(Log(v1, [ev |-> "declare", name |-> name, res |-> "ok",
                             depth |-> Len(r.vm.frames), mutable |-> mutable, value |-> value,
                             loop |-> CurrentLoop(r.vm),
                             before |-> r.vm.value_register, after |-> v1.value_register]),
                    VNull)

(***************************************************************************)
(* execute_instruction.                                                    *)
(***************************************************************************)
\* Instruction::Var and Instruction::Const: the value is evaluated, then the
\* name is checked and declared.  The history records the register before
\* the check and after the declaration.
declare(vm, name, value, mutable) ==
    LET r == ExecuteValue(vm, value)
    IN  IF r.k # "ok" THEN r
        ELSE IF value_exists(r.vm, name)
        THEN Err(Log(r.vm, [ev |-> "declare", name |-> name, res |-> "AssignmentError",
                            depth |-> Len(r.vm.frames), mutable |-> mutable, value |-> value,
                             loop |-> CurrentLoop(r.vm),
                            before |-> r.vm.value_register, after |-> r.vm.value_register]),
                 "AssignmentError")
        ELSE LET v1 == add_value(r.vm, name, r.val, mutable)
             IN  Ok(Log(v1, [ev |-> "declare", name |-> name, res |-> "ok",
                             depth |-> Len(r.vm.frames), mutable |-> mutable, value |-> value,
                             loop |-> CurrentLoop(r.vm),
                             before |-> r.vm.value_register, after |-> v1.value_register]),
                    VNull)

execute_instruction(vm, ins) ==
    CASE ins.op = "Var" -> declare(vm, ins.name, ins.value, TRUE)
      [] ins.op = "Const" -> declare(vm, ins.name, ins.value, FALSE)
      [] ins.op = "Assign" ->
            LET r == ExecuteValue(vm, ins.value)
            IN  IF r.k # "ok" THEN r
                ELSE LET a == ExecuteAssignment(r.vm, ins.target, r.val, ins.aop, TRUE)
                     IN  IF a.k # "ok" THEN a ELSE Ok(a.vm, VNull)
      [] ins.op = "Value" ->
            LET r == ExecuteValue(vm, ins.value)
            IN  IF r.k # "ok" THEN r ELSE Ok(r.vm, VNull)
      [] ins.op = "Condition" ->
            LET r == ExecuteConditionChain(vm, ins.main_chain, ins.else_chunk)
            IN  IF r.k # "ok" THEN r ELSE Ok(r.vm, VNull)
      [] ins.op = "While" ->
            LET r == ExecuteWhileLoop(vm, ins.condition, ins.chunk)
            IN  IF r.k # "ok" THEN r ELSE Ok(r.vm, VNull)
      [] ins.op = "Return" ->
            LET r == ExecuteValue(vm, ins.value)
            IN  IF r.k # "ok" THEN r ELSE Exit(r.vm)
      [] ins.op = "Break" -> Exit(vm)
      [] ins.op = "Continue" ->
            Ok(Log(vm, [ev |-> "continue", site |-> "instruction", loop |-> CurrentLoop(vm)]), VNull)

(***************************************************************************)
(* The dispatch of the calls between the interpreter's operations.         *)
(***************************************************************************)
Run(c) ==
    CASE c[1] = "execute_value" -> execute_value(c[2], c[3])
      [] c[1] = "execute_dict" -> execute_dict(c[2], c[3], c[4], c[5])
      [] c[1] = "execute_array" -> execute_array(c[2], c[3], c[4], c[5])
      [] c[1] = "execute_params" -> execute_params(c[2], c[3], c[4], c[5])
      [] c[1] = "execute_instruction" -> execute_instruction(c[2], c[3])
      [] c[1] = "execute_assignment" -> execute_assignment(c[2], c[3], c[4], c[5], c[6])
      [] c[1] = "assign_attr" -> assign_attr(c[2], c[3], c[4], c[5], c[6], c[7])
      [] c[1] = "execute_func" -> execute_func(c[2], c[3], c[4], c[5], c[6])
      [] c[1] = "func_body" -> func_body(c[2], c[3], c[4])
      [] c[1] = "execute_while_loop" -> execute_while_loop(c[2], c[3], c[4])
      [] c[1] = "while_loop" -> while_loop(c[2], c[3], c[4], c[5])
      [] c[1] = "while_body" -> while_body(c[2], c[3], c[4])
      [] c[1] = "execute_condition_chain" -> execute_condition_chain(c[2], c[3], c[4])
      [] c[1] = "condition_chain" -> condition_chain(c[2], c[3], c[4], c[5], c[6])
      [] c[1] = "condition_arm" -> condition_arm(c[2], c[3])

(***************************************************************************)
(* init_core: the globals preloaded at startup.                            *)
(***************************************************************************)
\* a number literal that is no integer of the model (fsize::INFINITY, PI, E)
VFloat(text) == [t |-> "number", f64 |-> text]

\* vmcore::into_value_dict: a dict of the given (key, value, mutable) entries
into_value_dict(list) ==
    VDictMap([k \in {IndexStr(list[i][1]) : i \in 1..Len(list)} |->
                LET i == CHOOSE j \in 1..Len(list) : IndexStr(list[j][1]) = k
                IN  [val |-> list[i][2], mutable |-> list[i][3]]],
             <<>>)

math_entries ==
    into_value_dict(<<
        <<"floor", VNativeFn("math::floor_api"), FALSE>>,
        <<"round", VNativeFn("math::round_api"), FALSE>>,
        <<"ceil", VNativeFn("math::ceil_api"), FALSE>>,
        <<"trunc", VNativeFn("math::trunc_api"), FALSE>>,
        <<"abs", VNativeFn("math::abs_api"), FALSE>>,
        <<"sqrt", VNativeFn("math::sqrt_api"), FALSE>>,
        <<"sin", VNativeFn("math::sin_api"), FALSE>>,
        <<"cos", VNativeFn("math::cos_api"), FALSE>>,
        <<"tan", VNativeFn("math::tan_api"), FALSE>>,
        <<"random", VNativeFn("math::random_api"), FALSE>>,
        <<"randomRange", VNativeFn("math::random_range_api"), FALSE>>,
        <<"randomInt", VNativeFn("math::random_int_api"), FALSE>>,
        <<"PI", VFloat("3.141592653589793"), FALSE>>,
        <<"E", VFloat("2.718281828459045"), FALSE>> >>)

date_entries ==
    into_value_dict(<< <<"now", VNativeFn("date::get_current_time_ms_api"), FALSE>> >>)

window_entries(perms) ==
    << <<"filename", VStr("filename"), FALSE>>,
       <<"platform", VStr("OS"), FALSE>>,
       <<"arch", VStr("ARCH"), FALSE>>,
       <<"platformFamily", VStr("FAMILY"), FALSE>>,
       <<"version", VStr("1.0.0"), FALSE>>,
       <<"exit", VNativeFn("window::exit_api"), FALSE>>,
       <<"inspect", VNativeFn("window::inspect_api"), FALSE>>,
       <<"sleep", VNativeFn("window::sleep_api"), FALSE>> >>
    \o (IF PermEnv \in perms
        THEN << <<"env", into_value_dict(<<
                    <<"get", VNativeFn("window::get_env_api"), FALSE>>,
                    <<"set", VNativeFn("window::set_env_api"), FALSE>>,
                    <<"all", VNativeFn("window::all_env_api"), FALSE>>,
                    <<"delete", VNativeFn("window::delete_env_api"), FALSE>> >>), FALSE>> >>
        ELSE <<>>)
    \o (IF PermMemory \in perms
        THEN << <<"memory", into_value_dict(<<
                    <<"getByPointer", VNativeFn("memory::get_by_pointer_api"), FALSE>>,
                    <<"push", VNativeFn("memory::push_api"), FALSE>>,
                    <<"len", VNativeFn("memory::len_api"), FALSE>> >>), FALSE>> >>
        ELSE <<>>)

\* the globals in the order init_core adds them, each by add_value(.., false)
core_values(perms) ==
    << <<"print", VNativeFn("builtin::print_api")>>,
       <<"typeof", VNativeFn("builtin::typeof_api")>>,
       <<"panic", VNativeFn("builtin::panic_api")>>,
       <<"readline", VNativeFn("builtin::readline_api")>>,
       <<"prompt", VNativeFn("builtin::prompt_api")>>,
       <<"confirm", VNativeFn("builtin::confirm_api")>>,
       <<"inf", VFloat("INFINITY")>>,
       <<"boolean", VNativeFn("builtin::bool_api")>>,
       <<"Ok", VNativeFn("result::ok_api")>>,
       <<"Err", VNativeFn("result::err_api")>>,
       <<"Math", math_entries>>,
       <<"Date", date_entries>>,
       <<"window", into_value_dict(window_entries(perms))>> >>

RECURSIVE add_core(_, _, _)
add_core(vm, list, i) ==
    IF i > Len(list) THEN vm
    ELSE add_core(add_value(vm, list[i][1], list[i][2], FALSE), list, i + 1)

init_core(vm) == add_core(vm, core_values(vm.permissions), 1)

\* the VM that VM::new builds for a program, before execute_body runs
new(bytes, perms) ==
    init_core([frames |-> << [name |-> "@runtime", vi |-> 0] >>,
               value_stack |-> <<>>,
               value_register |-> <<>>,
               reader |-> [bytes |-> bytes, ci |-> 0, len |-> Len(bytes)],
               permissions |-> perms,
               trace |-> <<>>, calls |-> 0, loops |-> <<>>])

\* the number of globals init_core preloads
Builtins == Len(core_values({}))

(***************************************************************************)
(* Programs.  A program is a sequence of at most MaxProg top-level         *)
(* statements drawn from a pool.                                           *)
(***************************************************************************)
Arg(value) == [value |-> value, spread |-> FALSE]

Param(id) == [id |-> id, is_rest |-> FALSE]

Arm(guard, chunk) == [guard |-> guard, chunk |-> chunk]

\* var x = 0
StmtVarX == InsVar("x", IvNum(0))

\* func g() { var i = 0; while (i < 2) { if (i < 1) { return 7 } i += 1 } return 9 }
StmtFuncG ==
    InsValue(IvFunc("g", <<>>, <<
        InsVar("i", IvNum(0)),
        InsWhile(IvLessThan(IvWord("i"), IvNum(2)), <<
            InsCondition(<< Arm(IvLessThan(IvWord("i"), IvNum(1)), << InsReturn(IvNum(7)) >>) >>, <<>>),
            InsAssign(IvWord("i"), 1, IvNum(1)) >>),
        InsReturn(IvNum(9)) >>))

\* func h(a) { while (a < 1) { return a } return 5 }
StmtFuncH ==
    InsValue(IvFunc("h", << Param("a") >>, <<
        InsWhile(IvLessThan(IvWord("a"), IvNum(1)), << InsReturn(IvWord("a")) >>),
        InsReturn(IvNum(5)) >>))

\* var r = g()
StmtCallG == InsVar("r", IvCall(IvWord("g"), <<>>))

\* var s = h(x)
StmtCallH == InsVar("s", IvCall(IvWord("h"), << Arg(IvWord("x")) >>))

\* while (x < 2) { if (x < 1) { break } x += 1 }
StmtWhileIfBreak ==
    InsWhile(IvLessThan(IvWord("x"), IvNum(2)), <<
        InsCondition(<< Arm(IvLessThan(IvWord("x"), IvNum(1)), << InsBreak >>) >>, <<>>),
        InsAssign(IvWord("x"), 1, IvNum(1)) >>)

\* while (x < 2) { x += 1; continue; x += 5 }
StmtWhileContinue ==
    InsWhile(IvLessThan(IvWord("x"), IvNum(2)), <<
        InsAssign(IvWord("x"), 1, IvNum(1)),
        InsContinue,
        InsAssign(IvWord("x"), 1, IvNum(5)) >>)

\* while (x < 1) { var t = 1; x += 1 }
StmtWhileVar ==
    InsWhile(IvLessThan(IvWord("x"), IvNum(1)), <<
        InsVar("t", IvNum(1)),
        InsAssign(IvWord("x"), 1, IvNum(1)) >>)

\* while (x < 2) { break }
StmtWhileBreak == InsWhile(IvLessThan(IvWord("x"), IvNum(2)), << InsBreak >>)

\* if (x < 1) { var u = 1; x += 1 } else { x = 5 }
StmtIfElse ==
    InsCondition(<< Arm(IvLessThan(IvWord("x"), IvNum(1)),
                        << InsVar("u", IvNum(1)), InsAssign(IvWord("x"), 1, IvNum(1)) >>) >>,
                 << << InsAssign(IvWord("x"), 0, IvNum(5)) >> >>)

ControlPool ==
    {StmtVarX, StmtFuncG, StmtFuncH, StmtCallG, StmtCallH, StmtWhileIfBreak, StmtWhileContinue,
     StmtWhileVar, StmtWhileBreak, StmtIfElse}

\* one entry of a dict literal
Entry(key, value) == [key |-> key, value |-> value]

\* var d = { n: 1, m: 2 }
StmtVarD == InsVar("d", IvDict(<< Entry("n", IvNum(1)), Entry("m", IvNum(2)) >>))

\* d.n += 5
StmtAddAttr == InsAssign(IvAttr(IvWord("d"), IvStr("n")), 1, IvNum(5))

\* d.n -= 1
StmtSubAttr == InsAssign(IvAttr(IvWord("d"), IvStr("n")), 2, IvNum(1))

\* d.n = 2
StmtSetAttr == InsAssign(IvAttr(IvWord("d"), IvStr("n")), 0, IvNum(2))

\* var a = { b: {} }
StmtVarA == InsVar("a", IvDict(<< Entry("b", IvDict(<<>>)) >>))

\* a.b.c = 5
StmtChain == InsAssign(IvAttr(IvAttr(IvWord("a"), IvStr("b")), IvStr("c")), 0, IvNum(5))

\* d.z = 7
StmtSetNew == InsAssign(IvAttr(IvWord("d"), IvStr("z")), 0, IvNum(7))

\* d.z += 1
StmtAddNew == InsAssign(IvAttr(IvWord("d"), IvStr("z")), 1, IvNum(1))

\* Math.PI = 3
StmtSetMathPI == InsAssign(IvAttr(IvWord("Math"), IvStr("PI")), 0, IvNum(3))

\* Math.foo = 1
StmtSetMathFoo == InsAssign(IvAttr(IvWord("Math"), IvStr("foo")), 0, IvNum(1))

\* Math.foo += 1
StmtAddMathFoo == InsAssign(IvAttr(IvWord("Math"), IvStr("foo")), 1, IvNum(1))

AttrPool ==
    {StmtVarD, StmtAddAttr, StmtSubAttr, StmtSetAttr, StmtVarA, StmtChain, StmtSetNew, StmtAddNew,
     StmtSetMathPI, StmtSetMathFoo, StmtAddMathFoo}

\* const PI = 3
StmtConstPI == InsConst("PI", IvNum(3))

\* PI = 4
StmtAssignPI == InsAssign(IvWord("PI"), 0, IvNum(4))

\* PI += 1
StmtAddPI == InsAssign(IvWord("PI"), 1, IvNum(1))

\* PI -= 1
StmtSubPI == InsAssign(IvWord("PI"), 2, IvNum(1))

\* var PI = 1
StmtVarPI == InsVar("PI", IvNum(1))

\* func k() { var PI = 2 }
StmtFuncK == InsValue(IvFunc("k", <<>>, << InsVar("PI", IvNum(2)) >>))

\* k()
StmtCallK == InsValue(IvCall(IvWord("k"), <<>>))

\* while (x < 1) { var PI = 1; x += 1 }
StmtWhileVarPI ==
    InsWhile(IvLessThan(IvWord("x"), IvNum(1)), <<
        InsVar("PI", IvNum(1)),
        InsAssign(IvWord("x"), 1, IvNum(1)) >>)

\* var y = nope
StmtVarNope == InsVar("y", IvWord("nope"))

DeclarePool ==
    {StmtVarX, StmtConstPI, StmtAssignPI, StmtAddPI, StmtSubPI, StmtVarPI, StmtFuncK, StmtCallK,
     StmtWhileVarPI, StmtVarNope}

\* a parameter that takes the rest of the arguments
Rest(id) == [id |-> id, is_rest |-> TRUE]

\* func f(p, ...rest) { return p }
StmtFuncF == InsValue(IvFunc("f", << Param("p"), Rest("rest") >>, << InsReturn(IvWord("p")) >>))

\* func q(a, b) { }
StmtFuncQ == InsValue(IvFunc("q", << Param("a"), Param("b") >>, <<>>))

\* func w(...r, z) { }
StmtFuncW == InsValue(IvFunc("w", << Rest("r"), Param("z") >>, <<>>))

\* f()
StmtCallF0 == InsValue(IvCall(IvWord("f"), <<>>))

\* f(1)
StmtCallF1 == InsValue(IvCall(IvWord("f"), << Arg(IvNum(1)) >>))

\* f(1, 2, 3)
StmtCallF3 == InsValue(IvCall(IvWord("f"), << Arg(IvNum(1)), Arg(IvNum(2)), Arg(IvNum(3)) >>))

\* q(1)
StmtCallQ1 == InsValue(IvCall(IvWord("q"), << Arg(IvNum(1)) >>))

\* q(1, 2, 3)
StmtCallQ3 == InsValue(IvCall(IvWord("q"), << Arg(IvNum(1)), Arg(IvNum(2)), Arg(IvNum(3)) >>))

\* w(1, 2)
StmtCallW2 == InsValue(IvCall(IvWord("w"), << Arg(IvNum(1)), Arg(IvNum(2)) >>))

CallPool ==
    {StmtFuncF, StmtFuncQ, StmtFuncW, StmtCallF0, StmtCallF1, StmtCallF3, StmtCallQ1, StmtCallQ3,
     StmtCallW2}

\* x += 1
StmtIncX == InsAssign(IvWord("x"), 1, IvNum(1))

\* if (x < 1) { x += 1 } else if (x < 2) { x += 1 } else { x = 0 }
StmtIf3 ==
    InsCondition(<< Arm(IvLessThan(IvWord("x"), IvNum(1)), << InsAssign(IvWord("x"), 1, IvNum(1)) >>),
                    Arm(IvLessThan(IvWord("x"), IvNum(2)), << InsAssign(IvWord("x"), 1, IvNum(1)) >>) >>,
                 << << InsAssign(IvWord("x"), 0, IvNum(0)) >> >>)

\* if (x < 1) { x += 1 } else if (x < 2) { x += 5 }
StmtIfNoElse ==
    InsCondition(<< Arm(IvLessThan(IvWord("x"), IvNum(1)), << InsAssign(IvWord("x"), 1, IvNum(1)) >>),
                    Arm(IvLessThan(IvWord("x"), IvNum(2)), << InsAssign(IvWord("x"), 1, IvNum(5)) >>) >>,
                 <<>>)

\* if (x < 2) { if (x < 1) { x += 1 } else { x += 5 } }
StmtIfNested ==
    InsCondition(<< Arm(IvLessThan(IvWord("x"), IvNum(2)), <<
                        InsCondition(<< Arm(IvLessThan(IvWord("x"), IvNum(1)),
                                            << InsAssign(IvWord("x"), 1, IvNum(1)) >>) >>,
                                     << << InsAssign(IvWord("x"), 1, IvNum(5)) >> >>) >>) >>,
                 <<>>)

ConditionPool == {StmtVarX, StmtIncX, StmtIf3, StmtIfNoElse, StmtIfElse, StmtIfNested}

\* var y = 0
StmtVarY == InsVar("y", IvNum(0))

\* while (x < 3) { x += 1 }
StmtWhile3 == InsWhile(IvLessThan(IvWord("x"), IvNum(3)), << InsAssign(IvWord("x"), 1, IvNum(1)) >>)

\* while (x < 2) { y = 0; while (y < 2) { y += 1 } x += 1 }
StmtWhileNested ==
    InsWhile(IvLessThan(IvWord("x"), IvNum(2)), <<
        InsAssign(IvWord("y"), 0, IvNum(0)),
        InsWhile(IvLessThan(IvWord("y"), IvNum(2)), << InsAssign(IvWord("y"), 1, IvNum(1)) >>),
        InsAssign(IvWord("x"), 1, IvNum(1)) >>)

LoopPool ==
    {StmtVarX, StmtVarY, StmtWhile3, StmtWhileNested, StmtWhileVar, StmtWhileContinue, StmtWhileBreak}

Programs(pool) == UNION {[1..n -> pool] : n \in 1..MaxProg}

(***************************************************************************)
(* The state machine: VM::new, then the loop of execute_body.              *)
(***************************************************************************)
\* the VM the interpreter's operations work on, with an empty scratch history
\* of the calls and loops in progress
VM ==
    [frames |-> frames, value_stack |-> value_stack, value_register |-> value_register,
     reader |-> reader, permissions |-> permissions, trace |-> trace, calls |-> 0, loops |-> <<>>]

\* reader.next(): the next instruction of the reader's chunk, if any
next(vm) ==
    IF vm.reader.ci < vm.reader.len
    THEN LET p == parse_byte(vm) IN [vm |-> p.vm, instruction |-> <<p.ins>>]
    ELSE [vm |-> vm, instruction |-> <<>>]

\* the launcher, the collector and the compiler at rest
NoCommand == [args |-> <<>>, flags |-> <<>>]

NoHeap == [objects |-> <<>>, handles |-> <<>>, roots |-> {}, log |-> <<>>, block |-> <<>>]

NoKeys == [entries |-> <<>>, log |-> <<>>]

NoResources == [table |-> <<>>, log |-> <<>>]

NoCompiler == [ast |-> <<>>, bytes |-> <<>>, constants |-> <<>>, pos_map |-> <<>>, i |-> 0, refs |-> <<>>]

InitOf(programs) ==
    \E bytes \in programs :
        LET n == next(new(bytes, {}))
        IN  /\ frames = n.vm.frames
            /\ value_stack = n.vm.value_stack
            /\ value_register = n.vm.value_register
            /\ reader = n.vm.reader
            /\ permissions = n.vm.permissions
            /\ trace = n.vm.trace
            /\ instruction = n.instruction
            /\ status = "running"
            /\ error = <<>>
            /\ command = NoCommand
            /\ process = [args |-> <<>>, script |-> bytes, stdout |-> <<>>, exit |-> <<>>]
            /\ heap = NoHeap
            /\ compiler = NoCompiler
            /\ keys = NoKeys
            /\ resources = NoResources

InitWith(pool) == InitOf(Programs(pool))

Adopt(vm) ==
    /\ frames' = vm.frames
    /\ value_stack' = vm.value_stack
    /\ value_register' = vm.value_register
    /\ reader' = vm.reader
    /\ trace' = vm.trace
    /\ UNCHANGED <<permissions, others>>

\* execute_body going on to the next instruction after an error
execute_body_continue ==
    /\ status = "running"
    /\ instruction # <<>>
    /\ LET r == ExecuteInstruction(Log(VM, ExecEvent(VM, instruction[1])), instruction[1])
           n == next(r.vm)
       IN  /\ Adopt(n.vm)
           /\ instruction' = n.instruction
           /\ error' = IF r.k = "err" THEN <<r.val>> ELSE error
           /\ UNCHANGED status

\* one iteration of the loop of execute_body: the instruction is executed and
\* the next one is read; an error ends execute_body
execute_body ==
    /\ status = "running"
    /\ instruction # <<>>
    /\ LET r == ExecuteInstruction(Log(VM, ExecEvent(VM, instruction[1])), instruction[1])
       IN  CASE r.k = "ok" ->
                    LET n == next(r.vm)
                    IN  /\ Adopt(n.vm)
                        /\ instruction' = n.instruction
                        /\ UNCHANGED <<status, error>>
             [] r.k = "err" ->
                    /\ Adopt(r.vm)
                    /\ status' = "error"
                    /\ error' = <<r.val>>
                    /\ UNCHANGED instruction
             [] OTHER ->
                    /\ Adopt(r.vm)
                    /\ status' = "exit"
                    /\ UNCHANGED <<instruction, error>>

\* the loop of execute_body ends: Ok(())
execute_body_ok ==
    /\ status = "running"
    /\ instruction = <<>>
    /\ status' = "done"
    /\ UNCHANGED <<frames, value_stack, value_register, reader, permissions, instruction, error, trace>>
    /\ UNCHANGED others

Next == execute_body \/ execute_body_ok

Init == InitWith(ControlPool)

Spec == Init /\ [][Next]_vars

\* programs of attribute assignments
InitAttr == InitWith(AttrPool)

SpecAttr == InitAttr /\ [][Next]_vars

\* programs of declarations and assignments to names
InitDeclare == InitWith(DeclarePool)

SpecDeclare == InitDeclare /\ [][Next]_vars

\* programs of function declarations and calls
InitCall == InitWith(CallPool)

SpecCall == InitCall /\ [][Next]_vars

\* var a = [1, 2]
StmtVarArr == InsVar("a", IvArray(<<IvNum(1), IvNum(2)>>))

\* var b = a
StmtVarCopy == InsVar("b", IvWord("a"))

\* a[1]
StmtReadA1 == InsValue(IvAttr(IvWord("a"), IvNum(1)))

\* b[1]
StmtReadB1 == InsValue(IvAttr(IvWord("b"), IvNum(1)))

\* a[2]
StmtReadPast == InsValue(IvAttr(IvWord("a"), IvNum(2)))

\* a[0 - 1]
StmtReadBefore == InsValue(IvAttr(IvWord("a"), IvSub(IvNum(0), IvNum(1))))

ArrayPool == {StmtVarArr, StmtVarCopy, StmtReadA1, StmtReadB1, StmtReadPast, StmtReadBefore}

\* programs that build and read arrays
InitArray == InitWith(ArrayPool)

SpecArray == InitArray /\ [][Next]_vars

\* func ri() { if (true) { var t = 1; return t } }
StmtFuncRetIf ==
    InsValue(IvFunc("ri", <<>>, <<
        InsCondition(<< Arm(IvTrue, << InsVar("t", IvNum(1)), InsReturn(IvWord("t")) >>) >>, <<>>) >>))

\* func re() { if (false) { } else { var t = 2; return t } }
StmtFuncRetElse ==
    InsValue(IvFunc("re", <<>>, <<
        InsCondition(<< Arm(IvFalse, <<>>) >>, << << InsVar("t", IvNum(2)), InsReturn(IvWord("t")) >> >>) >>))

\* func rw() { while (true) { var t = 3; return t } }
StmtFuncRetWhile ==
    InsValue(IvFunc("rw", <<>>, <<
        InsWhile(IvTrue, << InsVar("t", IvNum(3)), InsReturn(IvWord("t")) >>) >>))

\* func rb() { var t = 4; return t }
StmtFuncRetBody == InsValue(IvFunc("rb", <<>>, << InsVar("t", IvNum(4)), InsReturn(IvWord("t")) >>))

\* ri()
StmtCallRetIf == InsValue(IvCall(IvWord("ri"), <<>>))

\* re()
StmtCallRetElse == InsValue(IvCall(IvWord("re"), <<>>))

\* rw()
StmtCallRetWhile == InsValue(IvCall(IvWord("rw"), <<>>))

\* rb()
StmtCallRetBody == InsValue(IvCall(IvWord("rb"), <<>>))

ReturnPool ==
    {StmtFuncRetIf, StmtFuncRetElse, StmtFuncRetWhile, StmtFuncRetBody, StmtCallRetIf, StmtCallRetElse,
     StmtCallRetWhile, StmtCallRetBody}

\* programs of functions that return a variable of the block of the Return
InitReturn == InitWith(ReturnPool)

SpecReturn == InitReturn /\ [][Next]_vars

\* while (x < 2) { var t = 1; x += 1 }
StmtWhileVar2 ==
    InsWhile(IvLessThan(IvWord("x"), IvNum(2)), <<
        InsVar("t", IvNum(1)),
        InsAssign(IvWord("x"), 1, IvNum(1)) >>)

\* while (x < 2) { const k = 1; x += 1 }
StmtWhileConst2 ==
    InsWhile(IvLessThan(IvWord("x"), IvNum(2)), <<
        InsConst("k", IvNum(1)),
        InsAssign(IvWord("x"), 1, IvNum(1)) >>)

\* if (x < 1) { var t = 1 }
StmtIfVar == InsCondition(<< Arm(IvLessThan(IvWord("x"), IvNum(1)), << InsVar("t", IvNum(1)) >>) >>, <<>>)

\* func f() { return t }
StmtFuncT == InsValue(IvFunc("f", <<>>, << InsReturn(IvWord("t")) >>))

\* f()
StmtCallT == InsValue(IvCall(IvWord("f"), <<>>))

\* var r = t
StmtVarR == InsVar("r", IvWord("t"))

ScopePool == {StmtWhileVar, StmtWhileVar2, StmtWhileConst2, StmtIfVar, StmtFuncT, StmtCallT, StmtVarR}

\* programs that declare names in blocks, after var x = 0
InitScope == InitOf({<<StmtVarX>> \o program : program \in Programs(ScopePool)})

SpecScope == InitScope /\ [][Next]_vars

\* func f(n) { if (n < 1) { return n } f(n - 1); return n }
StmtFuncRec ==
    InsValue(IvFunc("f", << Param("n") >>, <<
        InsCondition(<< Arm(IvLessThan(IvWord("n"), IvNum(1)), << InsReturn(IvWord("n")) >>) >>, <<>>),
        InsValue(IvCall(IvWord("f"), << Arg(IvSub(IvWord("n"), IvNum(1))) >>)),
        InsReturn(IvWord("n")) >>))

\* f(1)
StmtCallRec1 == InsValue(IvCall(IvWord("f"), << Arg(IvNum(1)) >>))

\* f(2)
StmtCallRec2 == InsValue(IvCall(IvWord("f"), << Arg(IvNum(2)) >>))

\* func h(a) { while (a < 1) { return a } return a }
StmtFuncHA ==
    InsValue(IvFunc("h", << Param("a") >>, <<
        InsWhile(IvLessThan(IvWord("a"), IvNum(1)), << InsReturn(IvWord("a")) >>),
        InsReturn(IvWord("a")) >>))

\* func g(a) { h(0); return a }
StmtFuncGA ==
    InsValue(IvFunc("g", << Param("a") >>, <<
        InsValue(IvCall(IvWord("h"), << Arg(IvNum(0)) >>)),
        InsReturn(IvWord("a")) >>))

\* g(7)
StmtCallGA == InsValue(IvCall(IvWord("g"), << Arg(IvNum(7)) >>))

NestPool == {StmtFuncRec, StmtCallRec1, StmtCallRec2, StmtFuncHA, StmtFuncGA, StmtCallGA}

\* programs of nested calls of functions that return their parameter
InitNest == InitWith(NestPool)

SpecNest == InitNest /\ [][Next]_vars

\* programs of condition chains
InitCondition == InitWith(ConditionPool)

SpecCondition == InitCondition /\ [][Next]_vars

\* programs of while loops
InitLoop == InitWith(LoopPool)

SpecLoop == InitLoop /\ [][Next]_vars

(***************************************************************************)
(* The launcher (src/src/cli/command.rs).  The strings of the command line *)
(* are sequences of characters.                                            *)
(***************************************************************************)
MaxArgs == 2

\* str.starts_with(prefix)
starts_with(str, prefix) == Len(str) >= Len(prefix) /\ SubSeq(str, 1, Len(prefix)) = prefix

\* str.split(sep): the pieces of str between the occurrences of sep
RECURSIVE split(_, _)
split(str, sep) ==
    LET at == {i \in 1..Len(str) : str[i] = sep}
    IN  IF at = {} THEN <<str>>
        ELSE LET i == CHOOSE i \in at : \A j \in at : i <= j
             IN  <<SubSeq(str, 1, i - 1)>> \o split(SubSeq(str, i + 1, Len(str)), sep)

\* the loop of Command::new over the arguments: flags.insert replaces the
\* value of a key that is already there
RECURSIVE Command_flags(_, _, _)
Command_flags(args, i, flags) ==
    IF i > Len(args) THEN flags
    ELSE LET arg == args[i]
         IN  IF starts_with(arg, <<"-", "-">>)
             THEN LET parts == split(SubSeq(arg, 3, Len(arg)), "=")
                      val == IF Len(parts) >= 2 THEN parts[2] ELSE <<>>
                  IN  Command_flags(args, i + 1,
                                    [k \in DOMAIN flags \cup {parts[1]} |->
                                        IF k = parts[1] THEN val ELSE flags[k]])
             ELSE Command_flags(args, i + 1, flags)

\* Command::new
Command_new(args) == [args |-> args, flags |-> Command_flags(args, 1, <<>>)]

\* Command::permissions taking the name of every flag
Command_permissions_all(cmd) ==
    {SubSeq(k, 5, Len(k)) : k \in DOMAIN cmd.flags}

\* Command::permissions
Command_permissions(cmd) ==
    {SubSeq(k, 5, Len(k)) : k \in {f \in DOMAIN cmd.flags : starts_with(f, <<"u", "s", "e", "-">>)}}

\* Command::log_error: println!("{}", reason); exit(0)
log_error(proc, reason) == [proc EXCEPT !.stdout = Append(@, reason), !.exit = <<0>>]

\* the arguments of the command line
ArgExe == <<"d", "a", "s", "h">>

ArgScript == <<"a", ".", "d", "s">>

\* --use-env
ArgUseEnv == <<"-", "-", "u", "s", "e", "-">> \o PermEnv

\* --use-memory
ArgUseMemory == <<"-", "-", "u", "s", "e", "-">> \o PermMemory

\* --use-deep-stack-trace
ArgUseDeep == <<"-", "-", "u", "s", "e", "-">> \o PermDeepStackTrace

\* --use-env=1
ArgUseEnvVal == ArgUseEnv \o <<"=", "1">>

\* -use-env
ArgOneDash == <<"-", "u", "s", "e", "-">> \o PermEnv

\* --user
ArgUser == <<"-", "-", "u", "s", "e", "r">>

ArgPool == {ArgUseEnv, ArgUseMemory, ArgUseDeep, ArgUseEnvVal, ArgOneDash, ArgUser}

\* the command lines: the executable, the script, and at most MaxArgs more
CommandLines ==
    {<<ArgExe, ArgScript>> \o rest : rest \in UNION {[1..n -> ArgPool] : n \in 0..MaxArgs}}

\* func e() { nope = 1 }
StmtFuncE == InsValue(IvFunc("e", <<>>, << InsAssign(IvWord("nope"), 0, IvNum(1)) >>))

\* e()
StmtCallE == InsValue(IvCall(IvWord("e"), <<>>))

\* while (true) { nope = 1 }
StmtWhileErr == InsWhile(IvTrue, << InsAssign(IvWord("nope"), 0, IvNum(1)) >>)

\* window.env = 1
StmtWindowEnv == InsAssign(IvAttr(IvWord("window"), IvStr("env")), 0, IvNum(1))

CliPool == {StmtFuncE, StmtCallE, StmtWhileErr, StmtWindowEnv}

\* the process is started: nothing of the VM exists yet
InitCli ==
    /\ process \in {[args |-> a, script |-> b, stdout |-> <<>>, exit |-> <<>>] :
                        a \in CommandLines, b \in Programs(CliPool)}
    /\ command = NoCommand
    /\ frames = <<>>
    /\ value_stack = <<>>
    /\ value_register = <<>>
    /\ reader = [bytes |-> <<>>, ci |-> 0, len |-> 0]
    /\ permissions = {}
    /\ trace = <<>>
    /\ instruction = <<>>
    /\ status = "start"
    /\ error = <<>>
    /\ heap = NoHeap
    /\ compiler = NoCompiler
    /\ keys = NoKeys
    /\ resources = NoResources

\* the launcher parses the command line and builds the VM for the script
\* with the permissions of the command
main ==
    /\ status = "start"
    /\ LET cmd == Command_new(process.args)
           n == next(new(process.script, Command_permissions(cmd)))
       IN  /\ command' = cmd
           /\ frames' = n.vm.frames
           /\ value_stack' = n.vm.value_stack
           /\ value_register' = n.vm.value_register
           /\ reader' = n.vm.reader
           /\ permissions' = n.vm.permissions
           /\ trace' = n.vm.trace
           /\ instruction' = n.instruction
    /\ status' = "running"
    /\ UNCHANGED <<error, process, heap, compiler, keys, resources>>

\* execute_body returned Err: the launcher reports it through log_error
report_error ==
    /\ status = "error"
    /\ process' = log_error(process, error[1])
    /\ status' = "exited"
    /\ UNCHANGED <<frames, value_stack, value_register, reader, permissions, instruction, error, trace,
                   command, heap, compiler, keys, resources>>

\* execute_body returned Ok: main returns
main_returns ==
    /\ status = "done"
    /\ process' = [process EXCEPT !.exit = <<0>>]
    /\ status' = "exited"
    /\ UNCHANGED <<frames, value_stack, value_register, reader, permissions, instruction, error, trace,
                   command, heap, compiler, keys, resources>>

NextCli == main \/ execute_body \/ execute_body_ok \/ report_error \/ main_returns

SpecCli == InitCli /\ [][NextCli]_vars

(***************************************************************************)
(* The heap of the collector (src/core/src/runtime/memory.rs).  An object  *)
(* is [kind, marked, frees, refs]: marked is the bool of its GcHeader,     *)
(* frees counts its deallocations, refs are the addresses its payload      *)
(* holds.  The address of an object is its position in heap.objects; a     *)
(* GcHandle is [ptr, kind].                                                *)
(***************************************************************************)
MaxObjects == 2

\* the ObjectKind of the objects the mutator allocates
ObjectKinds == {"Map", "Array", "String"}

\* GcHeader::mark writing false
mark_clear(objects, pointer) == [objects EXCEPT ![pointer].marked = FALSE]

\* GcHeader::mark: ptr::write(pointer as *mut bool, true)
mark(objects, pointer) == [objects EXCEPT ![pointer].marked = TRUE]

\* GcHandle::marked
marked(objects, handle) == objects[handle.ptr].marked

\* GcHandle::dealloc: the destructor and the layout of the handle's kind
dealloc(objects, handle) ==
    [objects EXCEPT ![handle.ptr].frees = @ + 1, ![handle.ptr].freed_as = <<handle.kind>>]

\* dealloc_if_unreachable leaving the bit of a marked object set
dealloc_if_unreachable_keep(objects, handle) ==
    IF ~objects[handle.ptr].marked
    THEN [objects |-> dealloc(objects, handle), freed |-> TRUE]
    ELSE [objects |-> objects, freed |-> FALSE]

\* GcHandle::dealloc_if_unreachable
dealloc_if_unreachable(objects, handle) ==
    IF ~objects[handle.ptr].marked
    THEN [objects |-> dealloc(objects, handle), freed |-> TRUE]
    ELSE [objects |-> [objects EXCEPT ![handle.ptr].marked = FALSE], freed |-> FALSE]

\* the addresses reachable from a set of addresses
RECURSIVE reachable(_, _)
reachable(objects, from) ==
    LET more == from \cup UNION {objects[a].refs : a \in from}
    IN  IF more = from THEN from ELSE reachable(objects, more)

\* the mark phase: every object reachable from the roots is marked
RECURSIVE mark_all(_, _)
mark_all(objects, todo) ==
    IF todo = {} THEN objects
    ELSE LET a == CHOOSE a \in todo : TRUE
         IN  mark_all(mark(objects, a), todo \ {a})

\* the sweep phase: the walk of the handle table from position i; the handles
\* that were not freed are kept, and the history records for every handle
\* the bit it was found with and what dealloc_if_unreachable returned
RECURSIVE sweep(_, _, _, _)
sweep(objects, handles, i, done) ==
    IF i > Len(handles)
    THEN [objects |-> objects, handles |-> done.kept, log |-> done.log]
    ELSE LET r == dealloc_if_unreachable(objects, handles[i])
         IN  sweep(r.objects, handles, i + 1,
                   [kept |-> IF r.freed THEN done.kept ELSE Append(done.kept, handles[i]),
                    log |-> Append(done.log, [ptr |-> handles[i].ptr,
                                              marked |-> marked(objects, handles[i]),
                                              frees |-> objects[handles[i].ptr].frees,
                                              returned |-> r.freed])])

\* an object is allocated: its header is unmarked, its handle is appended to
\* the table, and the value that holds it is a root
gc_alloc ==
    /\ Len(heap.objects) < MaxObjects
    /\ \E kind \in ObjectKinds :
        LET ptr == Len(heap.objects) + 1
        IN  heap' = [heap EXCEPT
                        !.objects = Append(@, [kind |-> kind, marked |-> FALSE, frees |-> 0,
                                               freed_as |-> <<>>, refs |-> {}]),
                        !.handles = Append(@, [ptr |-> ptr, kind |-> kind]),
                        !.roots = @ \cup {ptr}]
    /\ UNCHANGED <<frames, value_stack, value_register, reader, permissions, instruction, status, error,
                   trace, command, process, compiler, keys, resources>>

\* the mutator stores a value it can reach in a dict or an array it can reach
gc_store ==
    /\ \E a, b \in reachable(heap.objects, heap.roots) :
        /\ heap.objects[a].kind \in {"Map", "Array"}
        /\ b \notin heap.objects[a].refs
        /\ heap' = [heap EXCEPT !.objects[a].refs = @ \cup {b}]
    /\ UNCHANGED <<frames, value_stack, value_register, reader, permissions, instruction, status, error,
                   trace, command, process, compiler, keys, resources>>

\* a root goes: the frame that held the value is popped
gc_unroot ==
    /\ \E a \in heap.roots : heap' = [heap EXCEPT !.roots = @ \ {a}]
    /\ UNCHANGED <<frames, value_stack, value_register, reader, permissions, instruction, status, error,
                   trace, command, process, compiler, keys, resources>>

\* a collection: mark from the roots, then sweep the handle table
gc_collect ==
    /\ heap.handles # <<>>
    /\ LET live == {heap.handles[i].ptr : i \in 1..Len(heap.handles)}
           m == mark_all(heap.objects, reachable(heap.objects, heap.roots) \cap live)
           w == sweep(m, heap.handles, 1, [kept |-> <<>>, log |-> <<>>])
       IN  heap' = [heap EXCEPT !.objects = w.objects, !.handles = w.handles, !.log = w.log]
    /\ UNCHANGED <<frames, value_stack, value_register, reader, permissions, instruction, status, error,
                   trace, command, process, compiler, keys, resources>>

InitGc ==
    /\ heap = NoHeap
    /\ command = NoCommand
    /\ process = [args |-> <<>>, script |-> <<>>, stdout |-> <<>>, exit |-> <<>>]
    /\ compiler = NoCompiler
    /\ keys = NoKeys
    /\ resources = NoResources
    /\ frames = <<>>
    /\ value_stack = <<>>
    /\ value_register = <<>>
    /\ reader = [bytes |-> <<>>, ci |-> 0, len |-> 0]
    /\ permissions = {}
    /\ trace = <<>>
    /\ instruction = <<>>
    /\ status = "running"
    /\ error = <<>>

NextGc == gc_alloc \/ gc_store \/ gc_unroot \/ gc_collect

SpecGc == InitGc /\ [][NextGc]_vars

(***************************************************************************)
(* The layout of an allocation (memory.rs:8-100).  A payload type T is     *)
(* [size, align], its mem::size_of and mem::align_of; a Layout is          *)
(* [size, align].                                                          *)
(***************************************************************************)
MaxSize == 16

\* the alignments of the payload types
Aligns == {1, 2, 4, 8}

\* mem::size_of::<GcHeader>(), GcHeader being a bool
GcHeader_SIZE == 1

GcHeader_ALIGN == 1

\* next_alignment without the test of the remainder
next_alignment_always(size, align) == size + (align - (size % align))

next_alignment(size, align) ==
    LET rem == size % align
    IN  IF rem = 0 THEN size ELSE size + (align - rem)

max_align_of(T) == IF T.align >= GcHeader_ALIGN THEN T.align ELSE GcHeader_ALIGN

get_layout_size(T) == next_alignment(GcHeader_SIZE, T.align) + T.size

create_layout(T) ==
    LET t_align == T.align
        size == next_alignment(GcHeader_SIZE, t_align) + T.size
    IN  [size |-> size, align |-> IF t_align >= GcHeader_ALIGN THEN t_align ELSE GcHeader_ALIGN]

create_gc_layout(T) ==
    LET t_align == T.align
        size == next_alignment(GcHeader_SIZE, t_align) + T.size
        rem == GcHeader_SIZE % t_align
    IN  [layout |-> [size |-> size,
                     align |-> IF t_align >= GcHeader_ALIGN THEN t_align ELSE GcHeader_ALIGN],
         offset |-> IF rem = 0 THEN GcHeader_SIZE ELSE GcHeader_SIZE + (t_align - rem),
         size |-> size]

\* GcHeader::unwrap, unwrap_ref, unwrap_mut: the offset added to the pointer
unwrap_offset(T) == next_alignment(GcHeader_SIZE, T.align)

\* deallocate!: the offset of the payload that is dropped and the layout
\* given to alloc::dealloc
deallocate(T) ==
    [offset |-> next_alignment(GcHeader_SIZE, T.align), layout |-> create_layout(T)]

\* the payload types: the size of a type is a multiple of its alignment
PayloadTypes ==
    {T \in [size : 0..MaxSize, align : Aligns] : T.size % T.align = 0}

InitLayout ==
    /\ heap \in {[NoHeap EXCEPT !.block = <<[T |-> T, state |-> "new", gc_layout |-> <<>>,
                                             layout_size |-> 0, unwrapped |-> <<>>,
                                             freed |-> <<>>]>>] : T \in PayloadTypes}
    /\ command = NoCommand
    /\ process = [args |-> <<>>, script |-> <<>>, stdout |-> <<>>, exit |-> <<>>]
    /\ compiler = NoCompiler
    /\ keys = NoKeys
    /\ resources = NoResources
    /\ frames = <<>>
    /\ value_stack = <<>>
    /\ value_register = <<>>
    /\ reader = [bytes |-> <<>>, ci |-> 0, len |-> 0]
    /\ permissions = {}
    /\ trace = <<>>
    /\ instruction = <<>>
    /\ status = "running"
    /\ error = <<>>

\* a block for a payload of type T is allocated with create_gc_layout
block_alloc ==
    /\ heap.block[1].state = "new"
    /\ heap' = [heap EXCEPT !.block[1].state = "allocated",
                            !.block[1].gc_layout = <<create_gc_layout(heap.block[1].T)>>,
                            !.block[1].layout_size = get_layout_size(heap.block[1].T)]
    /\ UNCHANGED <<frames, value_stack, value_register, reader, permissions, instruction, status, error,
                   trace, command, process, compiler, keys, resources>>

\* the payload is read through GcHeader::unwrap
block_unwrap ==
    /\ heap.block[1].state = "allocated"
    /\ heap.block[1].unwrapped = <<>>
    /\ heap' = [heap EXCEPT !.block[1].unwrapped = <<unwrap_offset(heap.block[1].T)>>]
    /\ UNCHANGED <<frames, value_stack, value_register, reader, permissions, instruction, status, error,
                   trace, command, process, compiler, keys, resources>>

\* the block is freed with deallocate!
block_dealloc ==
    /\ heap.block[1].state = "allocated"
    /\ heap' = [heap EXCEPT !.block[1].state = "freed",
                            !.block[1].freed = <<deallocate(heap.block[1].T)>>]
    /\ UNCHANGED <<frames, value_stack, value_register, reader, permissions, instruction, status, error,
                   trace, command, process, compiler, keys, resources>>

NextLayout == block_alloc \/ block_unwrap \/ block_dealloc

SpecLayout == InitLayout /\ [][NextLayout]_vars

(***************************************************************************)
(* The bytecode compiler (src/src/bytecode/main.rs).  A string of the AST  *)
(* is written as a natural number, 0 being "window"; a byte is a number in *)
(* 0..255.  Number literals are not among the ASTs of the model.           *)
(* compiler.refs is a history: one entry for every constant reference      *)
(* emitted, with the offset of its first byte, its form, the constant, the *)
(* size of the pool when the bytes were emitted and whether the constant   *)
(* was inserted by this reference.                                         *)
(***************************************************************************)
MaxAst == 2

U8_MAX == 255

\* enum Opcode, #[repr(u8)]: the byte of an opcode is its position from 0
Opcodes ==
    <<"True", "False", "Null", "Str", "StrLong", "Word", "WordLong", "Num", "Var", "Const",
      "Assign", "Call", "Attr", "Add", "Sub", "Mult", "Div", "Pow", "Ternary", "Array", "Dict",
      "Group", "Await", "Invert", "Or", "And", "In", "Func", "FuncEnd", "Return", "Long", "Short">>

Opcode(name) == (CHOOSE k \in 1..Len(Opcodes) : Opcodes[k] = name) - 1

\* i as u8
as_u8(i) == i % 256

\* (i as u32).to_le_bytes()
to_le_bytes(i) == <<i % 256, (i \div 256) % 256, (i \div 65536) % 256, (i \div 16777216) % 256>>

\* the position from 0 of the first entry of the pool equal to constant, or
\* the length of the pool if there is none
position(constants, constant) ==
    LET found == {k \in 1..Len(constants) : constants[k] = constant}
    IN  IF found = {} THEN Len(constants)
        ELSE (CHOOSE k \in found : \A j \in found : k <= j) - 1

Ref(c, long, constant, pool, first) ==
    [at |-> Len(c.bytes), long |-> long, constant |-> constant, pool |-> pool, first |-> first]

\* push_constant emitting the 1-byte form whatever the index
push_constant_short(c, op, long_op, constant) ==
    LET i == position(c.constants, constant)
        first == i = Len(c.constants)
        constants == IF first THEN Append(c.constants, constant) ELSE c.constants
    IN  [c EXCEPT !.constants = constants,
                  !.bytes = @ \o <<Opcode(op), as_u8(i)>>,
                  !.refs = Append(@, Ref(c, FALSE, constant, Len(constants), first))]

push_constant(c, op, long_op, constant) ==
    LET i == position(c.constants, constant)
    IN  IF i < Len(c.constants)
        THEN IF Len(c.constants) >= U8_MAX
             THEN [c EXCEPT !.bytes = @ \o <<Opcode(long_op)>> \o to_le_bytes(i),
                            !.refs = Append(@, Ref(c, TRUE, constant, Len(c.constants), FALSE))]
             ELSE [c EXCEPT !.bytes = @ \o <<Opcode(op), as_u8(i)>>,
                            !.refs = Append(@, Ref(c, FALSE, constant, Len(c.constants), FALSE))]
        ELSE LET constants == Append(c.constants, constant)
             IN  IF i >= U8_MAX
                 THEN [c EXCEPT !.constants = constants,
                                !.bytes = @ \o <<Opcode(long_op)>> \o to_le_bytes(i),
                                !.refs = Append(@, Ref(c, TRUE, constant, Len(constants), TRUE))]
                 ELSE [c EXCEPT !.constants = constants,
                                !.bytes = @ \o <<Opcode(op), as_u8(i)>>,
                                !.refs = Append(@, Ref(c, FALSE, constant, Len(constants), TRUE))]

\* push_constant_without_op without the scan of the pool
push_constant_without_op_new(c, constant) ==
    LET i == Len(c.constants)
        constants == Append(c.constants, constant)
    IN  IF i >= U8_MAX
        THEN [c EXCEPT !.constants = constants,
                       !.bytes = @ \o <<Opcode("Long")>> \o to_le_bytes(i),
                       !.refs = Append(@, Ref(c, TRUE, constant, Len(constants), TRUE))]
        ELSE [c EXCEPT !.constants = constants,
                       !.bytes = @ \o <<Opcode("Short"), as_u8(i)>>,
                       !.refs = Append(@, Ref(c, FALSE, constant, Len(constants), TRUE))]

push_constant_without_op(c, constant) ==
    LET i == position(c.constants, constant)
    IN  IF i < Len(c.constants)
        THEN IF Len(c.constants) >= U8_MAX
             THEN [c EXCEPT !.bytes = @ \o <<Opcode("Long")>> \o to_le_bytes(i),
                            !.refs = Append(@, Ref(c, TRUE, constant, Len(c.constants), FALSE))]
             ELSE [c EXCEPT !.bytes = @ \o <<Opcode("Short"), as_u8(i)>>,
                            !.refs = Append(@, Ref(c, FALSE, constant, Len(c.constants), FALSE))]
        ELSE LET constants == Append(c.constants, constant)
             IN  IF i >= U8_MAX
                 THEN [c EXCEPT !.constants = constants,
                                !.bytes = @ \o <<Opcode("Long")>> \o to_le_bytes(i),
                                !.refs = Append(@, Ref(c, TRUE, constant, Len(constants), TRUE))]
                 ELSE [c EXCEPT !.constants = constants,
                                !.bytes = @ \o <<Opcode("Short"), as_u8(i)>>,
                                !.refs = Append(@, Ref(c, FALSE, constant, Len(constants), TRUE))]

\* push_pos with the offset of the byte after the next one
push_pos_next(c, pos) == [c EXCEPT !.pos_map = Append(@, <<Len(c.bytes) + 1, pos>>)]

push_pos(c, pos) == [c EXCEPT !.pos_map = Append(@, <<Len(c.bytes), pos>>)]

\* the items parse_byte and load_identifier emit, in order
Byte(op) == [item |-> "byte", bytes |-> <<Opcode(op)>>]

Bytes(bytes) == [item |-> "byte", bytes |-> bytes]

Raw(constant) == [item |-> "raw", constant |-> constant]

Ident(ident) == [item |-> "ident", ident |-> ident]

Stmt(stmt) == [item |-> "stmt", stmt |-> stmt]

Each(list, Item(_)) == [k \in 1..Len(list) |-> Item(list[k])]

\* Identifier::Dict: for every entry the key, then the value
RECURSIVE dict_items(_)
dict_items(dict) ==
    IF dict = <<>> THEN <<>>
    ELSE <<Raw(dict[1][1]), Ident(dict[1][2])>> \o dict_items(Tail(dict))

\* the match of load_identifier
identifier_items(ident) ==
    CASE ident.id = "String" -> << [item |-> "constant", op |-> "Str", long_op |-> "StrLong", constant |-> ident.s] >>
      [] ident.id = "Word" -> << [item |-> "constant", op |-> "Word", long_op |-> "WordLong", constant |-> ident.s] >>
      [] ident.id = "Call" ->
            <<Byte("Call"), Ident(ident.ident), Bytes(<<as_u8(Len(ident.params))>>)>>
            \o Each(ident.params, Ident)
      [] ident.id = "Attribute" -> <<Byte("Attr"), Ident(ident.ident), Ident(ident.attr)>>
      [] ident.id = "Boolean" -> <<Byte(IF ident.b THEN "True" ELSE "False")>>
      [] ident.id = "Null" -> <<Byte("Null")>>
      [] ident.id \in {"Add", "Sub", "Mult", "Div", "Pow", "And", "Or", "In"} ->
            <<Byte(ident.id), Ident(ident.a), Ident(ident.b)>>
      [] ident.id = "Ternary" ->
            <<Byte("Ternary"), Ident(ident.bool), Ident(ident.truthy), Ident(ident.falsy)>>
      [] ident.id = "Array" ->
            <<Byte("Array"), Bytes(to_le_bytes(Len(ident.vec)))>> \o Each(ident.vec, Ident)
      [] ident.id = "Dict" ->
            <<Byte("Dict"), Bytes(to_le_bytes(Len(ident.dict)))>> \o dict_items(ident.dict)
      [] ident.id = "Func" ->
            <<Byte("Func"), Raw(ident.name), Bytes(<<as_u8(Len(ident.params))>>)>>
            \o Each(ident.params, Raw) \o Each(ident.stmts, Stmt) \o <<Byte("FuncEnd")>>
      [] ident.id \in {"Group", "Await", "Invert"} -> <<Byte(ident.id), Ident(ident.ident)>>
      [] OTHER -> <<>>

\* the match of parse_byte, after push_pos
statement_items(stmt) ==
    CASE stmt.st = "Var" ->
            <<Byte(IF stmt.is_const THEN "Const" ELSE "Var"), Raw(stmt.name), Ident(stmt.val)>>
      [] stmt.st = "Assign" ->
            <<Byte("Assign"), Ident(stmt.ident), Bytes(<<stmt.op>>), Ident(stmt.val)>>
      [] stmt.st = "Return" -> <<Byte("Return"), Ident(stmt.ident)>>
      [] stmt.st = "Primary" -> <<Ident(stmt.ident)>>
      [] OTHER -> <<>>

\* the emission of a list of items, first to last
RECURSIVE load(_, _)
load(c, items) ==
    IF items = <<>> THEN c
    ELSE LET it == items[1]
             rest == Tail(items)
         IN  CASE it.item = "byte" -> load([c EXCEPT !.bytes = @ \o it.bytes], rest)
               [] it.item = "raw" -> load(push_constant_without_op(c, it.constant), rest)
               [] it.item = "constant" -> load(push_constant(c, it.op, it.long_op, it.constant), rest)
               [] it.item = "ident" -> load(c, identifier_items(it.ident) \o rest)
               [] it.item = "stmt" -> load(push_pos(c, it.stmt.pos), statement_items(it.stmt) \o rest)

load_identifier(c, ident) == load(c, <<Ident(ident)>>)

compiler_parse_byte(c, stmt) == load(c, <<Stmt(stmt)>>)

\* BytecodeCompiler::new, before parse_to_bytes: the pool holds "window"
compiler_new(ast) ==
    [ast |-> ast, bytes |-> <<>>, constants |-> <<0>>, pos_map |-> <<>>, i |-> 0, refs |-> <<>>]

\* the iterations of the loop of parse_to_bytes from the statement at c.i up
\* to the one before position n (from 0); the run of iterations is split in
\* halves, the second continuing from the state the first has produced
RECURSIVE parse_to(_, _)
parse_to(c, n) ==
    LET end == IF n < Len(c.ast) THEN n ELSE Len(c.ast)
    IN  IF c.i >= end THEN c
        ELSE IF end - c.i = 1
        THEN [compiler_parse_byte(c, c.ast[c.i + 1]) EXCEPT !.i = @ + 1]
        ELSE parse_to(parse_to(c, c.i + ((end - c.i) \div 2)), end)

\* the ASTs: statements that each read a name of their own, then at most
\* MaxAst statements of the pool
Word(s) == [id |-> "Word", s |-> s]

String(s) == [id |-> "String", s |-> s]

Primary(ident, pos) == [st |-> "Primary", ident |-> ident, pos |-> pos]

\* window
AstWindow == Primary(Word(0), 1)

\* fresh
AstFresh == Primary(Word(1001), 2)

\* var other = "fresh"
AstVar == [st |-> "Var", name |-> 1002, val |-> String(1001), is_const |-> FALSE, pos |-> 3]

\* window.first = fresh(null, { other: true })
AstAssign ==
    [st |-> "Assign", ident |-> [id |-> "Attribute", ident |-> Word(0), attr |-> String(1)], op |-> 0,
     val |-> [id |-> "Call", ident |-> Word(1001),
              params |-> << [id |-> "Null"],
                            [id |-> "Dict", dict |-> << <<1002, [id |-> "Boolean", b |-> TRUE]>> >>] >>],
     pos |-> 4]

\* func third(first) { return first + third }
AstFunc ==
    Primary([id |-> "Func", name |-> 1003, params |-> <<1>>,
             stmts |-> << [st |-> "Return", ident |-> [id |-> "Add", a |-> Word(1), b |-> Word(1003)],
                           pos |-> 6] >>], 5)

AstPool == {AstWindow, AstFresh, AstVar, AstAssign, AstFunc}

\* the numbers of names read before the statements of the pool
Lengths == {0, 252, 253, 254, 255}

\* the compiler has compiled the n statements that read the names
InitCompiler ==
    /\ \E n \in Lengths, tail \in UNION {[1..m -> AstPool] : m \in 0..MaxAst} :
            compiler = parse_to(compiler_new([k \in 1..n |-> Primary(Word(k), 0)] \o tail), n)
    /\ heap = NoHeap
    /\ keys = NoKeys
    /\ resources = NoResources
    /\ command = NoCommand
    /\ process = [args |-> <<>>, script |-> <<>>, stdout |-> <<>>, exit |-> <<>>]
    /\ frames = <<>>
    /\ value_stack = <<>>
    /\ value_register = <<>>
    /\ reader = [bytes |-> <<>>, ci |-> 0, len |-> 0]
    /\ permissions = {}
    /\ trace = <<>>
    /\ instruction = <<>>
    /\ status = "running"
    /\ error = <<>>

\* one iteration of the loop of parse_to_bytes
parse_to_bytes ==
    /\ compiler.i < Len(compiler.ast)
    /\ compiler' = parse_to(compiler, compiler.i + 1)
    /\ UNCHANGED <<frames, value_stack, value_register, reader, permissions, instruction, status, error,
                   trace, command, process, heap, keys, resources>>

NextCompiler == parse_to_bytes

SpecCompiler == InitCompiler /\ [][NextCompiler]_vars

(***************************************************************************)
(* FloatLike, the number of a dict key (src/src/vm/value.rs).  An f64 is    *)
(* its 8 bytes, the byte with the sign first.                              *)
(***************************************************************************)
MaxKeys == 2

F64Zero == <<0, 0, 0, 0, 0, 0, 0, 0>>

F64NegZero == <<128, 0, 0, 0, 0, 0, 0, 0>>

F64One == <<63, 240, 0, 0, 0, 0, 0, 0>>

F64NaN == <<127, 248, 0, 0, 0, 0, 0, 0>>

\* a NaN with another payload
F64NaNPayload == <<127, 248, 0, 0, 0, 0, 0, 1>>

Floats == {F64Zero, F64NegZero, F64One, F64NaN, F64NaNPayload}

\* f64::to_le_bytes: the byte of lowest weight first
FloatLike_to_bytes(f) == [k \in 1..Len(f) |-> f[Len(f) + 1 - k]]

is_nan(f) ==
    /\ f[1] % 128 = 127
    /\ f[2] \div 16 = 15
    /\ (f[2] % 16 # 0 \/ \E k \in 3..8 : f[k] # 0)

is_zero(f) == f[1] % 128 = 0 /\ \A k \in 2..8 : f[k] = 0

\* the comparison of the numbers, f64's own ==
FloatLike_eq_f64(a, b) == ~is_nan(a) /\ ~is_nan(b) /\ (a = b \/ (is_zero(a) /\ is_zero(b)))

\* PartialEq for FloatLike
FloatLike_eq(a, b) == FloatLike_to_bytes(a) = FloatLike_to_bytes(b)

\* Hash for FloatLike: the hasher is the sequence of what was written to it;
\* an array of bytes writes its length and its bytes
FloatLike_hash(f, state) == state \o <<Len(FloatLike_to_bytes(f))>> \o FloatLike_to_bytes(f)

\* HashMap: an entry is found by a key of the same hash that eq says is equal
HashMap_find(entries, key) ==
    {i \in 1..Len(entries) :
        entries[i].hash = FloatLike_hash(key, <<>>) /\ FloatLike_eq(entries[i].key, key)}

HashMap_insert(entries, key, val) ==
    LET found == HashMap_find(entries, key)
    IN  IF found = {} THEN Append(entries, [key |-> key, hash |-> FloatLike_hash(key, <<>>), val |-> val])
        ELSE [entries EXCEPT ![CHOOSE i \in found : TRUE].val = val]

HashMap_get(entries, key) ==
    LET found == HashMap_find(entries, key)
    IN  IF found = {} THEN <<>> ELSE <<entries[CHOOSE i \in found : TRUE].val>>

InitKeys ==
    /\ keys = NoKeys
    /\ resources = NoResources
    /\ compiler = NoCompiler
    /\ heap = NoHeap
    /\ command = NoCommand
    /\ process = [args |-> <<>>, script |-> <<>>, stdout |-> <<>>, exit |-> <<>>]
    /\ frames = <<>>
    /\ value_stack = <<>>
    /\ value_register = <<>>
    /\ reader = [bytes |-> <<>>, ci |-> 0, len |-> 0]
    /\ permissions = {}
    /\ trace = <<>>
    /\ instruction = <<>>
    /\ status = "running"
    /\ error = <<>>

\* an entry is stored under a number
key_insert ==
    /\ \E f \in Floats, val \in 1..2 :
        /\ Len(HashMap_insert(keys.entries, f, val)) <= MaxKeys
        /\ keys' = [keys EXCEPT !.entries = HashMap_insert(@, f, val)]
    /\ UNCHANGED <<frames, value_stack, value_register, reader, permissions, instruction, status, error,
                   trace, command, process, heap, compiler, resources>>

\* an entry is looked up by a number; the log keeps the last lookup and the
\* entries it was made in
key_get ==
    /\ \E f \in Floats :
        keys' = [keys EXCEPT !.log = << [key |-> f, hash |-> FloatLike_hash(f, <<>>),
                                         val |-> HashMap_get(keys.entries, f),
                                         entries |-> keys.entries] >>]
    /\ UNCHANGED <<frames, value_stack, value_register, reader, permissions, instruction, status, error,
                   trace, command, process, heap, compiler, resources>>

NextKeys == key_insert \/ key_get

SpecKeys == InitKeys /\ [][NextKeys]_vars

(***************************************************************************)
(* Resources (src/core/src/runtime/resources.rs).  A resource of the table *)
(* is [type, child]: child is the state of the child process the resource  *)
(* belongs to, "running", "exited" (not waited for) or "killed".           *)
(***************************************************************************)
MaxResources == 2

MaxCloses == 3

ResourceTypes == {"ChildResource", "ChildStdinResource", "ChildStdoutResource", "ChildStderrResource"}

\* Resource::kind
Resource_kind(r) == IF r.type = "ChildResource" THEN "Child" ELSE "Io"

\* std::process::Child::kill on a child that has not been waited for: the
\* signal is sent, also to a child that has exited already, and the call is Ok
Child_kill(r) ==
    [res |-> [ok |-> TRUE, kind |-> ""],
     r |-> [r EXCEPT !.child = IF @ = "running" THEN "killed" ELSE @]]

\* the default close of the trait Resource
Resource_close(r) == [res |-> [ok |-> TRUE, kind |-> ""], r |-> r]

\* a close of the child that gives the child away: a second close finds none
ChildResource_close_once(r) ==
    IF r.child = "killed" THEN [res |-> [ok |-> FALSE, kind |-> "InvalidInput"], r |-> r]
    ELSE Child_kill(r)

\* ChildResource::close
ChildResource_close(r) ==
    LET k == Child_kill(r)
    IN  IF k.res.ok THEN [res |-> [ok |-> TRUE, kind |-> ""], r |-> k.r]
        ELSE [res |-> [ok |-> FALSE, kind |-> k.res.kind], r |-> k.r]

\* close as the resource's type implements it
close(r) == IF r.type = "ChildResource" THEN ChildResource_close(r) ELSE Resource_close(r)

InitResources ==
    /\ resources = NoResources
    /\ keys = NoKeys
    /\ compiler = NoCompiler
    /\ heap = NoHeap
    /\ command = NoCommand
    /\ process = [args |-> <<>>, script |-> <<>>, stdout |-> <<>>, exit |-> <<>>]
    /\ frames = <<>>
    /\ value_stack = <<>>
    /\ value_register = <<>>
    /\ reader = [bytes |-> <<>>, ci |-> 0, len |-> 0]
    /\ permissions = {}
    /\ trace = <<>>
    /\ instruction = <<>>
    /\ status = "running"
    /\ error = <<>>

\* a resource of a running child enters the table under the next handle
resource_add ==
    /\ Len(resources.table) < MaxResources
    /\ \E type \in ResourceTypes :
        resources' = [resources EXCEPT !.table = Append(@, [type |-> type, child |-> "running"])]
    /\ UNCHANGED <<frames, value_stack, value_register, reader, permissions, instruction, status, error,
                   trace, command, process, heap, compiler, keys>>

\* the child of a resource ends by itself
child_exit ==
    /\ \E h \in 1..Len(resources.table) :
        /\ resources.table[h].child = "running"
        /\ resources' = [resources EXCEPT !.table[h].child = "exited"]
    /\ UNCHANGED <<frames, value_stack, value_register, reader, permissions, instruction, status, error,
                   trace, command, process, heap, compiler, keys>>

\* close is called on the resource of a handle
resource_close ==
    /\ Len(resources.log) < MaxCloses
    /\ \E h \in 1..Len(resources.table) :
        LET c == close(resources.table[h])
        IN  resources' = [table |-> [resources.table EXCEPT ![h] = c.r],
                          log |-> Append(resources.log,
                                         [handle |-> h, res |-> c.res, before |-> resources.table[h],
                                          after |-> c.r])]
    /\ UNCHANGED <<frames, value_stack, value_register, reader, permissions, instruction, status, error,
                   trace, command, process, heap, compiler, keys>>

NextResources == resource_add \/ child_exit \/ resource_close

SpecResources == InitResources /\ [][NextResources]_vars

(***************************************************************************)
(* Control flow: Return, Break, Continue and the balance of frames.        *)
(***************************************************************************)
Events == 1..Len(trace)

\* C1: inside a function body a Return at any nesting depth of condition arms
\* and while loops ends the call at once and the call evaluates to the
\* returned value: after the Return only the enclosing constructs are left,
\* then the call exits with that value; no other instruction runs in between.
ReturnEndsCall ==
    \A i \in Events :
        (trace[i].ev = "return" /\ trace[i].calls > 0) =>
            \E j \in Events :
                /\ j > i
                /\ trace[j].ev = "exit"
                /\ trace[j].val = trace[i].val
                /\ \A k \in (i + 1)..(j - 1) : trace[k].ev = "leave"

\* C2: every call of a user function that yields a value leaves the frame
\* stack height, the value_register length and the reader state as they were
\* just before the call.
CallRestoresState ==
    \A i \in Events :
        trace[i].ev = "exit" =>
            /\ trace[i].frames = trace[i].entry.frames
            /\ trace[i].register = trace[i].entry.register
            /\ trace[i].reader = trace[i].entry.reader

\* C3: when the top-level execution completes normally the frame stack holds
\* only @runtime and every register entry is a global (declared with the
\* frame stack at height one): nothing declared in a function, a condition
\* arm or a loop body remains.
TopLevelBalance ==
    status = "done" =>
        /\ Len(frames) = 1
        /\ frames[1].name = "@runtime"
        /\ \A i \in 1..Len(value_register) : value_register[i].depth <= 1

\* C4: a Break executed in a while loop, directly in its body or in a
\* condition arm nested in it, terminates that loop: its guard is not
\* evaluated again, no further instruction of its body runs, and the loop is
\* left with the reader back on the enclosing chunk.
BreakTerminatesLoop ==
    \A i \in Events :
        (trace[i].ev = "break" /\ trace[i].loop # 0) =>
            /\ \A j \in Events :
                    j > i => ~(trace[j].ev \in {"guard", "exec"} /\ trace[j].loop = trace[i].loop)
            /\ \E j \in Events :
                    /\ j > i
                    /\ trace[j].ev = "leave"
                    /\ trace[j].kind = "while"
                    /\ trace[j].loop = trace[i].loop
                    /\ trace[j].why = "break"
                    /\ trace[j].reader = trace[j].entry.state

\* C5: a Continue executed in a while-loop body skips the rest of the
\* iteration: the next thing executed is the guard of that loop.
ContinueSkipsRest ==
    \A i \in Events :
        (trace[i].ev = "continue" /\ trace[i].loop # 0) =>
            \E j \in Events :
                /\ j > i
                /\ trace[j].ev = "guard"
                /\ trace[j].loop = trace[i].loop
                /\ \A k \in (i + 1)..(j - 1) : trace[k].ev = "leave"

\* C6: whenever a while body, a condition arm or an else chunk is left, for
\* any reason, the reader state is the one saved on entry and the synthetic
\* frame pushed for the construct has been popped.
SubChunkRestores ==
    \A i \in Events :
        trace[i].ev = "leave" =>
            /\ trace[i].reader = trace[i].entry.state
            /\ trace[i].frames = trace[i].entry.frames

(***************************************************************************)
(* Assignments and declarations.                                           *)
(***************************************************************************)
\* C7: a compound assignment (+= or -=) to an existing mutable attribute of
\* a dict succeeds, leaves a dict in the dict's stack slot, sets the
\* attribute to add/sub of its old value and the assigned value, and leaves
\* every other entry unchanged.
CompoundAttrAssign ==
    \A i \in Events :
        LET e == trace[i]
        IN  (/\ e.ev = "assign_attr"
             /\ e.op \in {1, 2}
             /\ e.attr \in DOMAIN e.entries
             /\ e.entries[e.attr].mutable
             /\ e.pointer # <<>>) =>
                LET slot == e.after[e.pointer[1] + 1]
                    old == e.entries[e.attr].val
                IN  /\ e.res = "ok"
                    /\ slot.t = "object"
                    /\ slot.dict = "Map"
                    /\ DOMAIN slot.entries = DOMAIN e.entries
                    /\ slot.entries[e.attr].val =
                            (IF e.op = 1 THEN add_values(old, e.val) ELSE sub_values(old, e.val))
                    /\ \A k \in DOMAIN e.entries \ {e.attr} : slot.entries[k] = e.entries[k]

\* C8: an assignment to a chain of attributes a.b.c = v writes the entry c of
\* the dict stored at a.b: the slot that is written is the slot of the dict
\* the target's base expression evaluates to, and no other slot changes.
ChainAssignTarget ==
    \A i \in Events :
        LET e == trace[i]
        IN  (e.ev = "assign_attr" /\ e.res = "ok") =>
                /\ e.designated.t = "object"
                /\ dict_pointer(e.designated) = e.pointer
                /\ \A p \in 1..Len(e.before) : p # e.pointer[1] + 1 => e.after[p] = e.before[p]

\* C9: an assignment, with any op code, to a Word that resolves to an entry
\* declared by const fails with AssignmentToConstant and leaves the entry's
\* value_stack slot unchanged; and an entry declared by const is never
\* mutable afterwards.
ConstAssignFails ==
    /\ \A i \in Events :
            LET e == trace[i]
            IN  (e.ev = "assign" /\ ~e.mutable) =>
                    /\ i = Len(trace)
                    /\ status = "error"
                    /\ error[1].message = "AssignmentToConstant"
                    /\ value_stack[e.id + 1] = e.before[e.id + 1]
    /\ \A i \in Events :
            LET e == trace[i]
            IN  (e.ev = "declare" /\ e.res = "ok" /\ ~e.mutable) =>
                    \A j \in 1..Len(value_register) :
                        value_register[j].id = e.after[Len(e.after)].id => ~value_register[j].mutable

\* an assignment with op code op to a name declared by const has been refused
ConstAssigned(op) ==
    /\ trace # <<>>
    /\ LET e == trace[Len(trace)]
       IN  /\ e.ev = "assign"
           /\ e.op = op
           /\ ~e.mutable
           /\ \E i \in Events :
                /\ trace[i].ev = "declare"
                /\ trace[i].res = "ok"
                /\ ~trace[i].mutable
                /\ trace[i].after[Len(trace[i].after)].id = e.id

ConstAssignFailsWitness == status = "error" /\ ConstAssigned(2)

\* the name of a declaration resolved when it was declared: the register held
\* an entry with that key at a depth within the frame-stack height
Resolved(e) ==
    \E j \in 1..Len(e.before) : e.before[j].key = e.name /\ e.before[j].depth <= e.depth

\* C10: a Var or Const declaration of a name that already resolves in the
\* current scope fails with AssignmentError and adds no register entry; a
\* declaration of a name that does not resolve adds exactly one entry, whose
\* depth is the frame-stack height.
DeclareChecksScope ==
    \A i \in Events :
        LET e == trace[i]
        IN  e.ev = "declare" =>
                IF Resolved(e)
                THEN /\ i = Len(trace)
                     /\ status = "error"
                     /\ error[1].message = "AssignmentError"
                     /\ value_register = e.before
                ELSE /\ e.res = "ok"
                     /\ Len(e.after) = Len(e.before) + 1
                     /\ SubSeq(e.after, 1, Len(e.before)) = e.before
                     /\ e.after[Len(e.after)].key = e.name
                     /\ e.after[Len(e.after)].depth = e.depth
                     /\ e.after[Len(e.after)].mutable = e.mutable

\* a global has been declared, and a later declaration of its name inside a
\* function has been refused
DeclareChecksScopeWitness ==
    /\ status = "error"
    /\ \E i, j \in Events :
            /\ i < j
            /\ trace[i].ev = "declare"
            /\ trace[i].depth = 1
            /\ ~Resolved(trace[i])
            /\ trace[j].ev = "declare"
            /\ trace[j].name = trace[i].name
            /\ trace[j].depth = 2
            /\ Resolved(trace[j])

(***************************************************************************)
(* Lookups.                                                                *)
(***************************************************************************)
\* the position in the register of the newest entry with the key at a depth
\* within the height, 0 if there is none
Newest(reg, key, height) ==
    LET found == {j \in 1..Len(reg) : reg[j].key = key /\ reg[j].depth <= height}
    IN  IF found = {} THEN 0 ELSE CHOOSE j \in found : \A k \in found : k <= j

\* the names looked up: every key of the register, and one that is not there
Names == {value_register[j].key : j \in 1..Len(value_register)} \cup {"nope"}

\* C11: get_value, value_exists and get_value_register resolve a name to the
\* newest register entry with that key whose depth is within the frame-stack
\* height, and agree on which entry, if any, that is.
LookupsAgree ==
    \A key \in Names :
        LET j == Newest(value_register, key, Len(frames))
            r == get_value_register(VM, key)
        IN  /\ value_exists(VM, key) = (j # 0)
            /\ IF j = 0
               THEN /\ r.k = "err"
                    /\ get_value(VM, key) = VNull
               ELSE /\ r.k = "ok"
                    /\ r.val = value_register[j]
                    /\ get_value(VM, key) = value_stack[value_register[j].id + 1]

\* a name has two entries within the frame-stack height, in different slots,
\* and the lookup yields the newer one
LookupsAgreeWitness ==
    \E i, j \in 1..Len(value_register) :
        /\ i < j
        /\ value_register[i].key = value_register[j].key
        /\ value_register[i].depth <= Len(frames)
        /\ value_register[j].depth <= Len(frames)
        /\ value_register[i].id # value_register[j].id
        /\ get_value_register(VM, value_register[i].key).val = value_register[j]

(***************************************************************************)
(* Calls.                                                                  *)
(***************************************************************************)
\* C12: a call binds every parameter as a mutable entry of the new function
\* frame: a plain parameter at position i to the i-th argument, or to Null
\* when there is none; a rest parameter at position i to an Array of the
\* arguments from position i on, in order, each pushed on the value stack by
\* the call (an empty Array when there is none).
BindsParameters ==
    \A n \in Events :
        LET e == trace[n]
        IN  e.ev = "call" =>
                /\ Len(e.register) = e.vi + Len(e.param_ids)
                /\ \A i \in 1..Len(e.param_ids) :
                        LET entry == e.register[e.vi + i]
                            val == e.stack[entry.id + 1]
                        IN  /\ entry.key = e.param_ids[i].id
                            /\ entry.mutable
                            /\ entry.depth = e.frames
                            /\ IF ~e.param_ids[i].is_rest
                               THEN val = (IF i <= Len(e.params) THEN e.params[i] ELSE VNull)
                               ELSE /\ val.t = "array"
                                    /\ Len(val.ids) = (IF i <= Len(e.params) THEN Len(e.params) - i + 1 ELSE 0)
                                    /\ \A k \in 1..Len(val.ids) :
                                            /\ val.ids[k] >= e.stack_before
                                            /\ e.stack[val.ids[k] + 1] = e.params[i + k - 1]
                                            /\ \A l \in 1..Len(val.ids) : l # k => val.ids[l] # val.ids[k]

\* a call with more arguments than parameters has bound a plain parameter and
\* a rest parameter of two elements
BindsParametersWitness ==
    \E n \in Events :
        LET e == trace[n]
        IN  /\ e.ev = "call"
            /\ Len(e.params) = 3
            /\ \E i \in 1..Len(e.param_ids) :
                    /\ e.param_ids[i].is_rest
                    /\ Len(e.stack[e.register[e.vi + i].id + 1].ids) = 2

(***************************************************************************)
(* Condition chains and while loops.                                       *)
(***************************************************************************)
\* the guards evaluated, and the arms run, for the chain begun at event s
GuardsOf(s) == {p \in Events : trace[p].ev = "cguard" /\ trace[p].chain = s}

ArmsOf(s) == {p \in Events : trace[p].ev = "arm" /\ trace[p].chain = s}

\* C13: a Condition runs at most one chunk: its guards are evaluated in
\* order, the chunk of the first truthy guard runs and no later guard is
\* evaluated; the else chunk runs if and only if it exists and every guard
\* was falsy.
ConditionRunsOneChunk ==
    \A s \in Events :
        trace[s].ev = "chain" =>
            LET c == trace[s]
                G == GuardsOf(s)
                A == ArmsOf(s)
            IN  /\ Cardinality(A) <= 1
                /\ \A a \in A : a < Len(trace) /\ trace[a + 1].ev = "enter" /\ trace[a + 1].kind = "condition"
                /\ \A p \in G :
                        /\ trace[p].arm = 1 + Cardinality({q \in G : q < p})
                        /\ trace[p].arm <= c.arms
                        /\ IF trace[p].truthy
                           THEN /\ \A q \in G : q <= p
                                /\ A = {p + 1}
                                /\ trace[p + 1].arm = trace[p].arm
                           ELSE IF trace[p].arm < c.arms
                           THEN \E q \in G : trace[q].arm = trace[p].arm + 1
                           ELSE IF c.has_else
                           THEN A = {p + 1} /\ trace[p + 1].arm = 0
                           ELSE A = {}
                /\ \A a \in A :
                        IF trace[a].arm = 0
                        THEN /\ c.has_else
                             /\ Cardinality(G) = c.arms
                             /\ \A p \in G : ~trace[p].truthy
                        ELSE /\ a - 1 \in G
                             /\ trace[a - 1].truthy
                             /\ trace[a - 1].arm = trace[a].arm

\* a chain of two arms and an else chunk has run its second arm after a falsy
\* first guard, and the run went on after the chain
ConditionRunsOneChunkWitness ==
    /\ status = "done"
    /\ \E s \in Events :
            /\ trace[s].ev = "chain"
            /\ trace[s].arms = 2
            /\ trace[s].has_else
            /\ \E a \in ArmsOf(s) : trace[a].arm = 2

\* the events of the while loop L: its guard evaluations, the instructions of
\* its body that were begun, and its exits
LoopGuards(L) == {p \in Events : trace[p].ev = "guard" /\ trace[p].loop = L}

LoopIters(L) == {p \in Events : trace[p].ev = "iter" /\ trace[p].loop = L}

LoopLeaves(L) == {p \in Events : trace[p].ev = "leave" /\ trace[p].kind = "while" /\ trace[p].loop = L}

\* C14: a while loop evaluates its guard before every iteration and runs the
\* whole body once for each truthy evaluation (unless a Break, a Return or an
\* error ends the iteration); a falsy guard ends the loop at once, and a loop
\* that ends normally ends on a falsy guard.
WhileLoopIterates ==
    \A s \in Events :
        (trace[s].ev = "enter" /\ trace[s].kind = "while") =>
            LET L == trace[s].loop
                n == trace[s].body
                G == LoopGuards(L)
                I == LoopIters(L)
                V == LoopLeaves(L)
            IN  /\ s + 1 \in G
                /\ \A p \in I : trace[p].at = 1 => (p - 1 \in G /\ trace[p - 1].truthy)
                /\ \A v \in V : trace[v].why = "end" => (v - 1 \in G /\ ~trace[v - 1].truthy)
                /\ \A g \in G :
                        IF ~trace[g].truthy
                        THEN g + 1 \in V /\ trace[g + 1].why = "end"
                        ELSE LET ends == {q \in G \cup V : q > g}
                             IN  /\ status # "error" => ends # {}
                                 /\ ends # {} =>
                                        LET e == CHOOSE q \in ends : \A r \in ends : q <= r
                                            body == {p \in I : g < p /\ p < e}
                                        IN  (e \in G \/ trace[e].why = "end") =>
                                                /\ e \in G
                                                /\ Cardinality(body) = n
                                                /\ \A p \in body :
                                                        trace[p].at = 1 + Cardinality({q \in body : q < p})

\* var x = 0; while (x < 3) { x += 1 } has ended with x == 3 after exactly
\* three executions of the body
WhileLoopIteratesWitness ==
    /\ status = "done"
    /\ \E j \in 1..Len(value_register) :
            /\ value_register[j].key = "x"
            /\ value_stack[value_register[j].id + 1] = VNum(3)
    /\ \E s \in Events :
            /\ trace[s].ev = "enter"
            /\ trace[s].kind = "while"
            /\ Cardinality({g \in LoopGuards(trace[s].loop) : trace[g].truthy}) = 3
            /\ Cardinality(LoopIters(trace[s].loop)) = 3
            /\ Cardinality(LoopGuards(trace[s].loop)) = 4

(***************************************************************************)
(* The register and the value stack.                                       *)
(***************************************************************************)
\* C15: after every frame pop (end of a while loop, end of a condition arm,
\* return of a function) the register has been cut back to the length it had
\* when the frame was pushed, and no entry is deeper than the frame stack.
FramePopTruncates ==
    /\ \A n \in Events :
            LET e == trace[n]
            IN  (e.ev \in {"leave", "exit"} /\ e.frames = e.entry.frames) =>
                    e.register = e.entry.register
    /\ status # "error" =>
            \A j \in 1..Len(value_register) : value_register[j].depth <= Len(frames)

\* the ids given by the declarations executed so far
DeclaredIds == {n \in Events : trace[n].ev = "declare" /\ trace[n].res = "ok"}

DeclaredId(n) == trace[n].after[Len(trace[n].after)].id

\* every register entry's id is a slot of the value stack, and no two entries,
\* nor two declarations, share an id
StackIdsValid ==
    /\ \A j \in 1..Len(value_register) :
            /\ value_register[j].id \in 0..(Len(value_stack) - 1)
            /\ \A i \in 1..Len(value_register) : i # j => value_register[i].id # value_register[j].id
    /\ \A m, n \in DeclaredIds :
            /\ DeclaredId(n) \in 0..(Len(value_stack) - 1)
            /\ m # n => DeclaredId(m) # DeclaredId(n)

\* C16: in every reachable state each register entry's id is a valid index
\* into value_stack, entries created by distinct declarations have distinct
\* ids, and value_stack never shrinks.
ValueStackAppendOnly ==
    /\ []StackIdsValid
    /\ [][Len(value_stack') >= Len(value_stack)]_vars

\* a name was declared inside a function whose frame is gone, and declared
\* again at top level, in another slot
ValueStackAppendOnlyWitness ==
    /\ status = "done"
    /\ \E m, n \in DeclaredIds :
            /\ m < n
            /\ trace[m].name = trace[n].name
            /\ trace[m].depth = 2
            /\ trace[n].depth = 1
            /\ DeclaredId(m) # DeclaredId(n)

(***************************************************************************)
(* Attribute assignments.                                                  *)
(***************************************************************************)
\* the entries of the dict value d, read in the given value stack
EntriesIn(stack, d) ==
    IF d.dict = "Map" THEN d.entries
    ELSE LET slot == stack[d.pointer + 1]
         IN  IF slot.t = "object" /\ slot.dict = "Map" THEN slot.entries ELSE NoEntries

\* C17: assigning to an attribute k absent from the dict d the target
\* designates: with op 0 the entry k -> (value, mutable) is inserted into d
\* and every other entry of d is kept; with op 1 or 2 the assignment fails
\* with UnexpectedAssignment and nothing changes.
AbsentAttrAssign ==
    \A n \in Events :
        LET e == trace[n]
        IN  (/\ e.ev = "assign_attr"
             /\ e.designated.t = "object"
             /\ e.attr \notin DOMAIN EntriesIn(e.before, e.designated)) =>
                IF e.op = 0
                THEN /\ e.res = "ok"
                     /\ EntriesIn(e.after, e.designated) =
                            insert(EntriesIn(e.before, e.designated), e.attr, e.val, TRUE)
                ELSE /\ e.res = "UnexpectedAssignment"
                     /\ e.after = e.before

\* the dicts init_core preloads (Math, Date, window) hold every entry they
\* were created with, unchanged
BuiltinDictsIntact ==
    LET core == new(<<>>, permissions).value_stack
    IN  \A p \in 1..Len(core) :
            (core[p].t = "object" /\ core[p].dict = "Map") =>
                /\ value_stack[p].t = "object"
                /\ value_stack[p].dict = "Map"
                /\ \A k \in DOMAIN core[p].entries :
                        /\ k \in DOMAIN value_stack[p].entries
                        /\ value_stack[p].entries[k] = core[p].entries[k]

\* C18: an assignment, with any op, to an existing dict entry that is not
\* mutable raises an error and leaves the whole value stack unchanged; the
\* entries of the preloaded Math, Date and window dicts are never changed by
\* an assignment.
ReadonlyEntryAssign ==
    /\ \A n \in Events :
            LET e == trace[n]
            IN  (/\ e.ev = "assign_attr"
                 /\ e.designated.t = "object"
                 /\ e.attr \in DOMAIN EntriesIn(e.before, e.designated)
                 /\ ~EntriesIn(e.before, e.designated)[e.attr].mutable) =>
                    /\ e.res # "ok"
                    /\ status = "error"
                    /\ e.after = e.before
                    /\ value_stack = e.before
    /\ BuiltinDictsIntact

(***************************************************************************)
(* Errors.                                                                 *)
(***************************************************************************)
\* C19: resolving a name for which no register entry with that key and a
\* depth within the frame-stack height exists fails with an error that starts
\* with ExpectedValueStack, when the name is read in an expression (so no
\* declaration is ever carried out with the value of such a name) and when it
\* is the target of an assignment.
UnresolvedNameFails ==
    /\ \A n \in Events :
            LET e == trace[n]
            IN  (e.ev = "declare" /\ e.value.e = "Word") =>
                    Newest(e.before, e.value.id, e.depth) # 0
    /\ (/\ status = "error"
        /\ instruction[1].op = "Assign"
        /\ instruction[1].target.e = "Word"
        /\ instruction[1].value.e = "Num"
        /\ Newest(value_register, instruction[1].target.id, Len(frames)) = 0) =>
            error[1].message = "ExpectedValueStack"

\* C20: once a top-level instruction returns a runtime error, execute_body
\* stops: the step that executes the failing instruction ends the run with
\* exactly that error, the reader stays where the failing instruction left
\* it, and no step is ever taken from a run that is no longer running.
StopsAtFirstError ==
    [][/\ status = "running"
       /\ IF instruction = <<>> THEN TRUE
          ELSE LET r == ExecuteInstruction(Log(VM, ExecEvent(VM, instruction[1])), instruction[1])
               IN  r.k = "err" =>
                        /\ status' = "error"
                        /\ error' = <<r.val>>
                        /\ instruction' = instruction
                        /\ reader' = r.vm.reader
                        /\ trace' = r.vm.trace]_vars

\* a run ended by an error while top-level instructions remain unread
StopsAtFirstErrorWitness ==
    /\ status = "error"
    /\ error # <<>>
    /\ reader.ci = 1
    /\ reader.len = 3

(***************************************************************************)
(* The launcher and the permissions.                                       *)
(***************************************************************************)
\* C21: the process exit status is 0 only on normal termination; when the
\* launcher reports an error through Command::log_error the message is
\* printed and the process exits with a non-zero status.
ExitStatusTellsError ==
    process.exit # <<>> =>
        IF error = <<>>
        THEN process.exit = <<0>>
        ELSE /\ process.stdout = <<error[1]>>
             /\ process.exit[1] # 0

\* C22: the call_frames of a runtime error are the names of the frames on
\* the frame stack when the error is created, in stack order; the frames
\* whose name begins with @ are included if and only if the permission set
\* contains deep-stack-trace, the other frames always.
ErrorCallFrames ==
    status \in {"error", "exited"} /\ error # <<>> =>
        LET deep == \E i \in 1..Len(process.args) :
                        \/ process.args[i] = ArgUseDeep
                        \/ starts_with(process.args[i], ArgUseDeep \o <<"=">>)
            shown == {i \in 1..Len(frames) : deep \/ ~starts_with_at(frames[i].name)}
            got == error[1].call_frames
        IN  /\ Len(got) = Cardinality(shown)
            /\ \A i \in shown : got[Cardinality({j \in shown : j <= i})] = frames[i].name

\* an error raised inside a call of e, with the permission given
ErrorCallFramesWitness ==
    /\ status = "error"
    /\ PermDeepStackTrace \in permissions
    /\ error[1].call_frames = <<"@runtime", "e">>

\* the permissions and the entries of window that the command line asks for:
\* the name of a flag --use-n or --use-n=v is n
FlagName(arg) ==
    LET rest == SubSeq(arg, 7, Len(arg))
        eq == {i \in 1..Len(rest) : rest[i] = "="}
    IN  IF eq = {} THEN rest
        ELSE SubSeq(rest, 1, (CHOOSE i \in eq : \A j \in eq : i <= j) - 1)

Asked ==
    {FlagName(process.args[i]) :
        i \in {j \in 1..Len(process.args) : starts_with(process.args[j], <<"-", "-", "u", "s", "e", "-">>)}}

\* the entries of the global window
WindowEntries ==
    LET j == Newest(value_register, "window", Len(frames))
    IN  EntriesIn(value_stack, value_stack[value_register[j].id + 1])

\* C23: the global window dict has an env entry if and only if the launcher
\* was given a --use-env flag, and a memory entry if and only if it was given
\* --use-memory; the permission set is exactly the set of the names n for
\* which a --use-n flag appears on the command line, and it does not change
\* during execution.
PermissionsFromFlags ==
    /\ [](status # "start" =>
            /\ permissions = Asked
            /\ (IndexStr("env") \in DOMAIN WindowEntries) = (PermEnv \in Asked)
            /\ (IndexStr("memory") \in DOMAIN WindowEntries) = (PermMemory \in Asked))
    /\ [][status # "start" => permissions' = permissions]_vars

\* C23, amended: in the VM as the launcher constructs it, before the script
\* runs, window has an env entry if and only if --use-env was given and a
\* memory entry if and only if --use-memory was given; the permission set is
\* exactly the set of the names n of the flags --use-n, throughout the run.
PermissionsAtStartup ==
    /\ [](status # "start" => permissions = Asked)
    /\ []((status = "running" /\ trace = <<>>) =>
            /\ (IndexStr("env") \in DOMAIN WindowEntries) = (PermEnv \in Asked)
            /\ (IndexStr("memory") \in DOMAIN WindowEntries) = (PermMemory \in Asked)
            /\ IndexStr("filename") \in DOMAIN WindowEntries)
    /\ [][status # "start" => permissions' = permissions]_vars

\* a VM constructed for --use-env=1 and --user: env is granted, and nothing else
PermissionsAtStartupWitness ==
    /\ status = "running"
    /\ trace = <<>>
    /\ \E i, j \in 1..Len(process.args) : process.args[i] = ArgUseEnvVal /\ process.args[j] = ArgUser
    /\ permissions = {PermEnv}
    /\ IndexStr("env") \in DOMAIN WindowEntries
    /\ IndexStr("memory") \notin DOMAIN WindowEntries

(***************************************************************************)
(* The collector.                                                          *)
(***************************************************************************)
Addresses == 1..Len(heap.objects)

\* C24: sweeping one handle frees the object and returns true exactly when
\* its mark bit is clear, and otherwise clears the bit, frees nothing and
\* returns false; marking sets the bit and is idempotent; so after a sweep of
\* the whole handle table every surviving object has its mark bit clear and
\* every object that was unmarked has been freed exactly once.
SweepFreesUnmarked ==
    /\ \A n \in 1..Len(heap.log) :
            LET e == heap.log[n]
                o == heap.objects[e.ptr]
            IN  /\ e.returned = ~e.marked
                /\ e.frees = 0
                /\ o.frees = IF e.marked THEN 0 ELSE 1
                /\ ~e.marked => o.freed_as = <<o.kind>>
                /\ \A k \in 1..Len(heap.log) : k # n => heap.log[k].ptr # e.ptr
    /\ \A a \in Addresses :
            /\ heap.objects[a].frees <= 1
            /\ mark(heap.objects, a)[a].marked
            /\ mark(mark(heap.objects, a), a) = mark(heap.objects, a)
            /\ heap.log # <<>> =>
                    /\ ~heap.objects[a].marked
                    /\ (heap.objects[a].frees = 0) = (\E i \in 1..Len(heap.handles) : heap.handles[i].ptr = a)

\* a sweep that found one object marked and one unmarked
SweepFreesUnmarkedWitness ==
    \E m, n \in 1..Len(heap.log) :
        /\ heap.log[m].marked /\ ~heap.log[m].returned
        /\ ~heap.log[n].marked /\ heap.log[n].returned
        /\ heap.objects[heap.log[n].ptr].frees = 1

\* C25: after a collection no value reachable from the roots references a
\* freed heap object, also when dicts form reference cycles.
NoReachableFreed ==
    \A a \in reachable(heap.objects, heap.roots) : heap.objects[a].frees = 0

\* two dicts that reference each other, one of them a root, after a
\* collection that swept both
NoReachableFreedWitness ==
    /\ Len(heap.log) = 2
    /\ \E a, b \in Addresses :
        /\ a # b
        /\ b \in heap.objects[a].refs
        /\ a \in heap.objects[b].refs
        /\ heap.roots = {a}

\* m is the least multiple of a that is >= s
LeastMultiple(m, s, a) ==
    /\ m % a = 0
    /\ m >= s
    /\ \A k \in 0..(m - 1) : ~(k % a = 0 /\ k >= s)

\* C26: for every payload size and alignment the allocation size is
\* align_up(header_size, A_T) + sizeof(T) with alignment max(A_T,
\* header_align), the payload offset recorded by create_gc_layout is
\* align_up(header_size, A_T), and the same size and offset are used by
\* create_layout, get_layout_size, the unwrap accessors and deallocation;
\* next_alignment(s, a) is the least multiple of a that is >= s.
LayoutsAgree ==
    LET b == heap.block[1]
        up == CHOOSE m \in 0..(GcHeader_SIZE + b.T.align) : LeastMultiple(m, GcHeader_SIZE, b.T.align)
        al == IF b.T.align >= GcHeader_ALIGN THEN b.T.align ELSE GcHeader_ALIGN
    IN  /\ b.state # "new" =>
                /\ b.gc_layout[1].size = up + b.T.size
                /\ b.gc_layout[1].layout = [size |-> up + b.T.size, align |-> al]
                /\ b.gc_layout[1].offset = up
                /\ b.layout_size = up + b.T.size
                /\ create_layout(b.T) = b.gc_layout[1].layout
                /\ max_align_of(b.T) = al
        /\ b.unwrapped # <<>> => b.unwrapped[1] = up
        /\ b.state = "freed" =>
                /\ b.freed[1].offset = up
                /\ b.freed[1].layout = b.gc_layout[1].layout
        /\ \A s \in 0..b.T.size : LeastMultiple(next_alignment(s, b.T.align), s, b.T.align)

\* a block whose payload is aligned to 8 bytes, read and then freed
LayoutsAgreeWitness ==
    LET b == heap.block[1]
    IN  /\ b.state = "freed"
        /\ b.unwrapped = <<8>>
        /\ b.T = [size |-> 16, align |-> 8]
        /\ b.freed[1] = [offset |-> 8, layout |-> [size |-> 24, align |-> 8]]

(***************************************************************************)
(* The constant pool of the compiler.                                      *)
(***************************************************************************)
Refs == 1..Len(compiler.refs)

\* the index that the bytes of the reference r carry, as a reader decodes it
IndexOf(r) ==
    LET b == compiler.bytes
    IN  IF r.long
        THEN b[r.at + 2] + 256 * b[r.at + 3] + 65536 * b[r.at + 4] + 16777216 * b[r.at + 5]
        ELSE b[r.at + 2]

\* the size of the pool before the reference n was emitted
PoolBefore(n) == IF n = 1 THEN 1 ELSE compiler.refs[n - 1].pool

\* C27: every constant reference the encoder emits, in the 1-byte or the
\* 4-byte form, carries an index that designates a pool entry equal to the
\* referenced string, and, the pool being only appended to, an index emitted
\* earlier still designates the same string after any later insertion.
ConstantRefsResolve ==
    /\ [](\A n \in Refs :
            LET r == compiler.refs[n]
            IN  /\ IndexOf(r) < Len(compiler.constants)
                /\ compiler.constants[IndexOf(r) + 1] = r.constant
                /\ compiler.bytes[r.at + 1] \in
                        IF r.long THEN {Opcode("StrLong"), Opcode("WordLong"), Opcode("Long")}
                        ELSE {Opcode("Str"), Opcode("Word"), Opcode("Short")})
    /\ [][/\ Len(compiler.constants') >= Len(compiler.constants)
          /\ SubSeq(compiler.constants', 1, Len(compiler.constants)) = compiler.constants]_vars

\* a constant inserted at index 256 and referenced in the 4-byte form, after
\* references in the 1-byte form
ConstantRefsResolveWitness ==
    /\ compiler.i = Len(compiler.ast)
    /\ \E m, n \in Refs :
        /\ ~compiler.refs[m].long
        /\ compiler.refs[n].long
        /\ compiler.refs[n].first
        /\ IndexOf(compiler.refs[n]) = 256

\* C28: after any sequence of constant insertions the pool contains no two
\* equal strings and its entry 0 is window; inserting a string that is
\* already present leaves the pool unchanged and references the index of its
\* existing entry.
PoolDeduplicated ==
    LET pool == compiler.constants
    IN  /\ pool # <<>>
        /\ pool[1] = 0
        /\ \A j, k \in 1..Len(pool) : j # k => pool[j] # pool[k]
        /\ \A n \in Refs :
                LET r == compiler.refs[n]
                    present == \E k \in 1..PoolBefore(n) : pool[k] = r.constant
                IN  IF present
                    THEN /\ r.pool = PoolBefore(n)
                         /\ IndexOf(r) < PoolBefore(n)
                         /\ pool[IndexOf(r) + 1] = r.constant
                    ELSE /\ r.pool = PoolBefore(n) + 1
                         /\ IndexOf(r) = PoolBefore(n)
        /\ Len(pool) = PoolBefore(Len(compiler.refs) + 1)

\* a name that the pool holds is referenced again, and so is window
PoolDeduplicatedWitness ==
    /\ compiler.i = Len(compiler.ast)
    /\ \E n \in Refs :
        /\ compiler.refs[n].constant = 1001
        /\ ~compiler.refs[n].first
        /\ IndexOf(compiler.refs[n]) + 1 < Len(compiler.constants)
    /\ \E n \in Refs : compiler.refs[n].constant = 0 /\ IndexOf(compiler.refs[n]) = 0

\* C29: a constant reference is emitted in the 1-byte form if the pool has
\* at most 255 entries at emit time and in the 4-byte form otherwise; the
\* choice depends on the size of the pool and not on the index, and it is the
\* same for a first insertion and for a re-reference made at the same pool
\* size.
ShortFormByPoolSize ==
    /\ \A n \in Refs : (~compiler.refs[n].long) = (compiler.refs[n].pool <= 255)
    /\ \A m, n \in Refs :
            compiler.refs[m].pool = compiler.refs[n].pool => compiler.refs[m].long = compiler.refs[n].long

(***************************************************************************)
(* The position map of the compiler.                                       *)
(***************************************************************************)
\* the statements of the body of a function that a statement defines
BodyOf(stmt) ==
    LET ident == CASE stmt.st = "Primary" -> stmt.ident
                   [] stmt.st = "Return" -> stmt.ident
                   [] stmt.st \in {"Var", "Assign"} -> stmt.val
                   [] OTHER -> [id |-> "Null"]
    IN  IF ident.id = "Func" THEN ident.stmts ELSE <<>>

\* the statements lo .. hi of a list, each followed by the statements of the
\* function body it holds, in the order of the source
RECURSIVE Preorder(_, _, _)
Preorder(stmts, lo, hi) ==
    IF lo > hi THEN <<>>
    ELSE IF lo = hi
    THEN <<stmts[lo]>> \o Preorder(BodyOf(stmts[lo]), 1, Len(BodyOf(stmts[lo])))
    ELSE LET mid == lo + ((hi - lo) \div 2)
         IN  Preorder(stmts, lo, mid) \o Preorder(stmts, mid + 1, hi)

\* the bytes a statement can begin with
FirstBytes(stmt) ==
    CASE stmt.st = "Var" -> {Opcode(IF stmt.is_const THEN "Const" ELSE "Var")}
      [] stmt.st = "Assign" -> {Opcode("Assign")}
      [] stmt.st = "Return" -> {Opcode("Return")}
      [] stmt.st = "Primary" /\ stmt.ident.id = "Word" -> {Opcode("Word"), Opcode("WordLong")}
      [] stmt.st = "Primary" /\ stmt.ident.id = "Func" -> {Opcode("Func")}
      [] OTHER -> 0..255

\* C31: for every statement the encoder processes, statements of function
\* bodies included, the position map gets one pair of byte offset and
\* statement position before any byte of the statement is emitted, the offset
\* being the length of the byte stream at that moment; the offsets are
\* non-decreasing in the order of the map and none exceeds the length of the
\* byte stream.
PosBeforeBytes ==
    /\ [](LET sts == Preorder(compiler.ast, 1, compiler.i)
              pm == compiler.pos_map
          IN  /\ Len(pm) = Len(sts)
              /\ \A k \in 1..Len(pm) :
                    /\ pm[k][2] = sts[k].pos
                    /\ pm[k][1] < Len(compiler.bytes)
                    /\ compiler.bytes[pm[k][1] + 1] \in FirstBytes(sts[k])
                    /\ k > 1 => pm[k - 1][1] <= pm[k][1])
    /\ [][/\ Len(compiler'.pos_map) > Len(compiler.pos_map)
          /\ compiler'.pos_map[Len(compiler.pos_map) + 1][1] = Len(compiler.bytes)]_vars

\* a function with a statement in its body has been compiled after other
\* statements, and a statement has been compiled after it
PosBeforeBytesWitness ==
    /\ compiler.i = Len(compiler.ast)
    /\ \E k \in 2..(Len(compiler.pos_map) - 2) :
        /\ compiler.pos_map[k][2] = 5
        /\ compiler.pos_map[k + 1][2] = 6
        /\ compiler.pos_map[k][1] < compiler.pos_map[k + 1][1]
        /\ compiler.pos_map[k + 1][1] < compiler.pos_map[k + 2][1]

(***************************************************************************)
(* Arrays.                                                                 *)
(***************************************************************************)
\* C32: reading element i of an array value returns the current content of
\* the value_stack slot whose index the array stores at position i, for every
\* copy of the array value alike; an index outside [0, length) yields Null
\* and never the content of another element.
ArrayReadsSlot ==
    \A n \in Events :
        trace[n].ev = "index" =>
            trace[n].val =
                IF trace[n].attr.k = "Num" /\ trace[n].attr.n \in 0..(Len(trace[n].arr) - 1)
                THEN trace[n].stack[trace[n].arr[trace[n].attr.n + 1] + 1]
                ELSE VNull

(***************************************************************************)
(* Numbers as dict keys.                                                   *)
(***************************************************************************)
\* C33: equality of numeric dict keys is equality of their little-endian
\* byte patterns: it is reflexive for every bit pattern, NaN included (a key
\* that was stored is found again, and stored once), it tells -0.0 from 0.0,
\* and two equal keys have equal hashes.
FloatKeysByBytes ==
    /\ \A i, j \in 1..Len(keys.entries) :
            i # j => keys.entries[i].key # keys.entries[j].key
    /\ \A n \in 1..Len(keys.log) :
            LET l == keys.log[n]
                same == {i \in 1..Len(l.entries) : l.entries[i].key = l.key}
            IN  /\ l.val = IF same = {} THEN <<>> ELSE <<l.entries[CHOOSE i \in same : TRUE].val>>
                /\ \A i \in 1..Len(keys.entries) :
                        FloatLike_eq(keys.entries[i].key, l.key) => keys.entries[i].hash = l.hash
                /\ \A i \in 1..Len(keys.entries) :
                        FloatLike_eq(keys.entries[i].key, l.key) =>
                            (keys.entries[i].key = F64NegZero) = (l.key = F64NegZero)

\* 0.0 and -0.0 are stored as two keys with different values, and 0.0 is
\* looked up
FloatKeysByBytesWitness ==
    /\ \E i, j \in 1..Len(keys.entries) :
        /\ keys.entries[i].key = F64Zero
        /\ keys.entries[j].key = F64NegZero
        /\ keys.entries[i].val # keys.entries[j].val
    /\ keys.log # <<>>
    /\ keys.log[1].key = F64Zero
    /\ keys.log[1].val # <<>>

ReturnOperandInBlock ==
    \A n \in Events :
        trace[n].ev = "return" => (trace[n].frames = trace[n].block /\ trace[n].val # VNull)

\* C36: a name declared with var or const in a while body is scoped to one
\* iteration: a loop whose body holds such a declaration runs any number of
\* iterations without an AssignmentError, and the register has the same
\* length at the start of every iteration of the loop.
LoopDeclPerIteration ==
    /\ \A n \in Events :
            (trace[n].ev = "declare" /\ trace[n].loop # 0) => trace[n].res = "ok"
    /\ \A m, n \in Events :
            (/\ trace[m].ev = "iter" /\ trace[m].at = 1
             /\ trace[n].ev = "iter" /\ trace[n].at = 1
             /\ trace[m].loop = trace[n].loop) => trace[m].register = trace[n].register

\* C37: a name declared in a while body or in a condition arm is not
\* resolvable by any code executed after the construct has exited, at any
\* later frame depth, the body of a function called afterwards included: in
\* programs that declare t in blocks only, t read at top level (var r = t) or
\* in a function called at top level (f) yields nothing.
BlockNamesEnd ==
    /\ \A n \in Events :
            (trace[n].ev = "return" /\ trace[n].site = "func") => trace[n].val = VNull
    /\ \A j \in 1..Len(value_register) :
            value_register[j].key = "r" => value_stack[value_register[j].id + 1] = VNull

\* C38: during nested calls, recursion included, a parameter name resolves
\* to the binding of the innermost active call, and after that call has
\* returned to the binding of the caller, whose value the callee's binding of
\* the same name has not changed: a function that returns its parameter,
\* before or after a call it makes, returns the argument it was called with.
ParamOfInnermostCall ==
    \A n \in Events :
        (trace[n].ev = "exit" /\ trace[n].entry.params # <<>>) => trace[n].val = trace[n].entry.params[1]

(***************************************************************************)
(* Assignment to a name.                                                   *)
(***************************************************************************)
\* C39: a successful assignment to a Word target overwrites exactly one
\* pre-existing value_stack slot, the one named by the register entry the
\* Word resolves to; every other pre-existing slot, every register entry
\* (key, id, depth, mutable) and the frame stack are unchanged, and for op 1
\* and op 2 the new content of the slot is the sum and the difference of its
\* old content and the assigned value.
WordAssignWritesOneSlot ==
    \A n \in Events :
        LET e == trace[n]
        IN  (e.ev = "assign" /\ e.res = "ok") =>
                LET j == Newest(e.register[1], e.key, Len(e.frames[1]))
                    slot == e.id + 1
                IN  /\ j # 0
                    /\ e.id = e.register[1][j].id
                    /\ slot \in 1..Len(e.before)
                    /\ Len(e.after) >= Len(e.before)
                    /\ \A k \in 1..Len(e.before) : k # slot => e.after[k] = e.before[k]
                    /\ e.register[2] = e.register[1]
                    /\ e.frames[2] = e.frames[1]
                    /\ (e.val.t = "number" /\ e.before[slot].t = "number") =>
                            e.after[slot] = CASE e.op = 0 -> e.val
                                              [] e.op = 1 -> VNum(e.before[slot].n + e.val.n)
                                              [] e.op = 2 -> VNum(e.before[slot].n - e.val.n)
                                              [] OTHER -> VNull

\* a name has been assigned with += and with -=, each changing its slot
WordAssignWritesOneSlotWitness ==
    \E m, n \in Events :
        /\ trace[m].ev = "assign" /\ trace[m].res = "ok" /\ trace[m].op = 1
        /\ trace[n].ev = "assign" /\ trace[n].res = "ok" /\ trace[n].op = 2
        /\ trace[m].key = trace[n].key
        /\ trace[m].after # trace[m].before
        /\ trace[n].after # trace[n].before

====
